---- MODULE Spec2Model ----
(***************************************************************************)
(* Calendar grid engine of the chemotherapy regimen bank.                  *)
(*                                                                         *)
(* Dates are proleptic Gregorian ordinals (datetime.date.toordinal()), so  *)
(* date +/- timedelta(days=n) is integer addition and date.weekday() is    *)
(* (ordinal + 6) % 7 (Monday = 0 .. Sunday = 6).  The range limits of      *)
(* datetime.date (years 1..9999) are outside the modelled window.          *)
(*                                                                         *)
(* The day map of a therapy is kept after tokenisation: an optional        *)
(* leading label and the sequence of tokens that the split on commas /     *)
(* whitespace yields.  A token is a bare integer, an "A-B" pair, or a word *)
(* that int() rejects.  Lex reads such a record off a text given as a      *)
(* sequence of characters.  Rendered text is kept as strings.              *)
(***************************************************************************)
EXTENDS Integers, Sequences, FiniteSets, TLC

\* ---------------------------------------------------------------- bounds
MaxTherapies == 2
MaxCycleLen == 9
MaxDayNum == 5
NumStarts == 7
StartBase == 739252

\* ---------------------------------------------------------------- inputs
Names == {"Aza", "Ven"}

IntTok(n) == [kind |-> "int", a |-> n, b |-> n]
RangeTok(x, y) == [kind |-> "range", a |-> x, b |-> y]
BadTok == [kind |-> "bad", a |-> 0, b |-> 0]

Text(l, ts) == [label |-> l, toks |-> ts]

\* free text that is no day map, e.g. "daily"
FreeText == Text("", <<BadTok>>)

\* day-map texts the regimens of the model are built from
\*   "Days 3-1, 0, 1-2"   "1, N"   "Days x, 2-N"
DayMaps ==
    { Text("days", <<RangeTok(3, 1), IntTok(0), RangeTok(1, 2)>>),
      Text("", <<IntTok(1), IntTok(MaxDayNum)>>),
      Text("days", <<BadTok, RangeTok(2, MaxDayNum)>>) }

\* regimenbank.Chemotherapy: frequency is free text, duration is the day map
\* pythonbank.Chemotherapy:  frequency is the day map, duration is free text
Chemotherapy(n, f, d) == [name |-> n, frequency |-> f, duration |-> d]

BankTherapies == { Chemotherapy(n, FreeText, m) : n \in Names, m \in DayMaps }
LegacyTherapies == { Chemotherapy(n, m, FreeText) : n \in Names, m \in DayMaps }

SeqsUpTo(S, n) == UNION { [1..k -> S] : k \in 0..n }

Regimen(ths) == [name |-> "AZA/VEN", therapies |-> ths]

Regimens ==
    { Regimen(ths) : ths \in SeqsUpTo(BankTherapies, MaxTherapies)
                            \cup SeqsUpTo(LegacyTherapies, MaxTherapies) }

Starts == { StartBase + k : k \in 0..(NumStarts - 1) }
CycleLens == 1..MaxCycleLen

\* ---------------------------------------------------------------- helpers
Max(a, b) == IF a >= b THEN a ELSE b

SetMax(S) == CHOOSE x \in S : \A y \in S : y <= x
SetMin(S) == CHOOSE x \in S : \A y \in S : x <= y

Range(s) == { s[i] : i \in DOMAIN s }

RECURSIVE sorted(_)
sorted(S) == IF S = {} THEN <<>> ELSE <<SetMin(S)>> \o sorted(S \ {SetMin(S)})

\* datetime.date.weekday(): Monday = 0 .. Sunday = 6
weekday(d) == (d + 6) % 7

\* ---------------------------------------------------------------- parse_day_spec
\* mutant: range(a, b) leaves out the upper bound
TokenDays_Exclusive(tok) ==
    IF tok.kind = "range"
    THEN IF tok.a <= tok.b THEN [i \in 1..(tok.b - tok.a) |-> tok.a + i - 1] ELSE <<>>
    ELSE IF tok.kind = "int" THEN <<tok.a>> ELSE <<>>

\* the integers one token contributes to `out`
TokenDays(tok) ==
    IF tok.kind = "range"
    THEN IF tok.a <= tok.b THEN [i \in 1..(tok.b - tok.a + 1) |-> tok.a + i - 1] ELSE <<>>
    ELSE IF tok.kind = "int" THEN <<tok.a>> ELSE <<>>

RECURSIVE CollectDays(_, _)
CollectDays(toks, out) ==
    IF toks = <<>> THEN out
    ELSE CollectDays(Tail(toks), out \o TokenDays(Head(toks)))

\* pythonbank: range(a, b + 1) without the a <= b test
LegacyTokenDays(tok) ==
    IF tok.kind = "range"
    THEN [i \in 1..(tok.b - tok.a + 1) |-> tok.a + i - 1]
    ELSE IF tok.kind = "int" THEN <<tok.a>> ELSE <<>>

RECURSIVE CollectLegacyDays(_, _)
CollectLegacyDays(toks, days) ==
    IF toks = <<>> THEN days
    ELSE CollectLegacyDays(Tail(toks), days \o LegacyTokenDays(Head(toks)))

parse_day_spec(day_spec) ==
    IF day_spec.label = "" /\ day_spec.toks = <<>> THEN <<>>
    ELSE LET out == CollectDays(day_spec.toks, <<>>)
         IN  sorted({ d \in Range(out) : d >= 1 })

\* ---------------------------------------------------------------- parse_day_spec: the text
\* A text is a sequence of characters.  The characters of the modelled texts
\* are the letters of "Days" and of the agent names in both cases, the lower
\* case letters of the example texts, "x", the decimal digits, "+",
\* "-", ":", ",", the blank and the en dash (written "u2013").
EnDash == "u2013"

Digits == <<"0", "1", "2", "3", "4", "5", "6", "7", "8", "9">>

DigitVal(ch) == (CHOOSE i \in 1..10 : Digits[i] = ch) - 1

\* str.replace("–", "-")
replace_dash(s) == [i \in 1..Len(s) |-> IF s[i] = EnDash THEN "-" ELSE s[i]]

RECURSIVE lstrip(_)
lstrip(s) == IF s # <<>> /\ Head(s) = " " THEN lstrip(Tail(s)) ELSE s

RECURSIVE rstrip(_)
rstrip(s) ==
    IF s # <<>> /\ s[Len(s)] = " " THEN rstrip(SubSeq(s, 1, Len(s) - 1)) ELSE s

LowerChar(ch) ==
    CASE ch = "D" -> "d" [] ch = "A" -> "a" [] ch = "Y" -> "y" [] ch = "S" -> "s"
      [] ch = "X" -> "x" [] ch = "E" -> "e" [] ch = "N" -> "n" [] ch = "V" -> "v"
      [] ch = "Z" -> "z" [] OTHER -> ch

lower(s) == [i \in 1..Len(s) |-> LowerChar(s[i])]

\* the first position at or after i that holds no whitespace (\s*)
RECURSIVE SkipSpace(_, _)
SkipSpace(s, i) == IF i <= Len(s) /\ s[i] = " " THEN SkipSpace(s, i + 1) ELSE i

\* the position after the match of ^days?\s*[:\-]?\s* ; 1 when it does not match
LabelEnd(s) ==
    IF Len(s) >= 3 /\ SubSeq(s, 1, 3) = <<"d", "a", "y">>
    THEN LET i1 == IF Len(s) >= 4 /\ s[4] = "s" THEN 5 ELSE 4
             i2 == SkipSpace(s, i1)
             i3 == IF i2 <= Len(s) /\ s[i2] \in {":", "-"} THEN i2 + 1 ELSE i2
         IN  SkipSpace(s, i3)
    ELSE 1

\* re.split(r"[,\s]+", s) without the empty strings that `if not tok` skips
RECURSIVE SplitFrom(_, _, _)
SplitFrom(s, cur, tokens) ==
    IF s = <<>> THEN IF cur = <<>> THEN tokens ELSE Append(tokens, cur)
    ELSE IF Head(s) \in {",", " "}
         THEN SplitFrom(Tail(s), <<>>, IF cur = <<>> THEN tokens ELSE Append(tokens, cur))
         ELSE SplitFrom(Tail(s), Append(cur, Head(s)), tokens)

RECURSIVE DigitsVal(_)
DigitsVal(ds) ==
    IF ds = <<>> THEN 0
    ELSE 10 * DigitsVal(SubSeq(ds, 1, Len(ds) - 1)) + DigitVal(ds[Len(ds)])

\* int(x): an optional sign and one or more digits; anything else raises ValueError
int(x) ==
    LET signed == x # <<>> /\ Head(x) \in {"+", "-"}
        ds == IF signed THEN Tail(x) ELSE x
    IN  IF ds # <<>> /\ \A i \in 1..Len(ds) : ds[i] \in Range(Digits)
        THEN [ok |-> TRUE, exc |-> "",
              val |-> IF signed /\ Head(x) = "-" THEN 0 - DigitsVal(ds) ELSE DigitsVal(ds)]
        ELSE [ok |-> FALSE, exc |-> "ValueError", val |-> 0]

\* mutant: no handler, the exception leaves the function
except_ValueError_Missing(e) == FALSE

\* `except ValueError: continue`
except_ValueError(e) == e = "ValueError"

\* the outcome of a try block whose body raised e: the token is skipped, or
\* the exception leaves the function
Handle(e) == IF except_ValueError(e) THEN BadTok ELSE [kind |-> "raise", a |-> 0, b |-> 0]

\* one pass of `for tok in tokens` up to the values it read
ReadToken(tok) ==
    IF \E k \in 1..Len(tok) : tok[k] = "-"
    THEN LET k == CHOOSE i \in 1..Len(tok) : tok[i] = "-" /\ \A j \in 1..(i - 1) : tok[j] # "-"
             x == int(SubSeq(tok, 1, k - 1))
             y == int(SubSeq(tok, k + 1, Len(tok)))
         IN  IF ~x.ok THEN Handle(x.exc)
             ELSE IF ~y.ok THEN Handle(y.exc)
             ELSE RangeTok(x.val, y.val)
    ELSE LET n == int(tok)
         IN  IF n.ok THEN IntTok(n.val) ELSE Handle(n.exc)

\* lines 403-411 and the token reading of 414-430: the text as the word of
\* its label and its tokens
Lex(day_spec) ==
    LET s == lower(rstrip(lstrip(replace_dash(day_spec))))
        tokens == SplitFrom(SubSeq(s, LabelEnd(s), Len(s)), <<>>, <<>>)
        word == IF LabelEnd(s) = 1 THEN ""
                ELSE IF Len(s) >= 4 /\ s[4] = "s" THEN "days" ELSE "day"
    IN  Text(word, [i \in 1..Len(tokens) |-> ReadToken(tokens[i])])

\* parse_day_spec on a text: how the call ends
parse_day_spec_text(day_spec) ==
    LET lx == Lex(day_spec)
    IN  IF \E i \in 1..Len(lx.toks) : lx.toks[i].kind = "raise"
        THEN [called |-> TRUE, raised |-> TRUE, value |-> <<>>]
        ELSE [called |-> TRUE, raised |-> FALSE, value |-> parse_day_spec(lx)]

\* ---------------------------------------------------------------- compute_calendar_grid
\* cycle_day is None (<<>>) or an integer (<<cd>>)
None == <<>>
Some(x) == <<x>>

Entry(d, cd, ls) == [date |-> d, cycle_day |-> cd, labels |-> ls]

\* mutant: the name is put in front of the list (insert(0, name))
setdefault_prepend(by_day, d, name) ==
    IF d \in DOMAIN by_day
    THEN [by_day EXCEPT ![d] = <<name>> \o @]
    ELSE [x \in (DOMAIN by_day) \cup {d} |-> IF x = d THEN <<name>> ELSE by_day[x]]

\* by_day.setdefault(d, []).append(name)
setdefault_append(by_day, d, name) ==
    IF d \in DOMAIN by_day
    THEN [by_day EXCEPT ![d] = Append(@, name)]
    ELSE [x \in (DOMAIN by_day) \cup {d} |-> IF x = d THEN <<name>> ELSE by_day[x]]

RECURSIVE AppendAll(_, _, _)
AppendAll(by_day, dlist, name) ==
    IF dlist = <<>> THEN by_day
    ELSE AppendAll(setdefault_append(by_day, Head(dlist), name), Tail(dlist), name)

\* mutant: the `if d <= cycle_len` filter is missing
KeptDays_Unfiltered(t, cycle_len) == parse_day_spec(t.duration)

\* the days of one therapy that the aggregation keeps
KeptDays(t, cycle_len) ==
    SelectSeq(parse_day_spec(t.duration), LAMBDA d : d <= cycle_len)

\* body of `for t in reg.therapies`
AggTherapy(acc, t, cycle_len) ==
    LET dlist == KeptDays(t, cycle_len)
    IN  IF dlist = <<>> THEN acc
        ELSE [max_day |-> Max(acc.max_day, SetMax(Range(dlist))),
              by_day  |-> AppendAll(acc.by_day, dlist, t.name)]

\* mutant: max_day starts at 0 instead of cycle_len
AggInit_Zero(cycle_len) ==
    [max_day |-> 0, by_day |-> [d \in 1..cycle_len |-> <<>>]]

AggInit(cycle_len) ==
    [max_day |-> cycle_len, by_day |-> [d \in 1..cycle_len |-> <<>>]]

RECURSIVE AggLoop(_, _, _)
AggLoop(acc, therapies, cycle_len) ==
    IF therapies = <<>> THEN acc
    ELSE AggLoop(AggTherapy(acc, Head(therapies), cycle_len), Tail(therapies), cycle_len)

\* mutant: steps back to the Monday (weekday() days) instead of the Sunday
first_sun_of_Monday(start) == start - weekday(start)

first_sun_of(start) == start - ((weekday(start) + 1) % 7)
\* mutant: the - 1 is missing (day max_day + 1 taken as the last needed date)
last_needed_of_NoMinusOne(start, max_day) == start + max_day

last_needed_of(start, max_day) == start + (max_day - 1)
\* mutant: one day past the Saturday, as in pythonbank's last_week_sat
last_sat_of_PlusOne(last_needed) == last_needed + (((5 - weekday(last_needed)) % 7) + 1)

last_sat_of(last_needed) == last_needed + ((5 - weekday(last_needed)) % 7)

\* mutant: the `or ["Rest"]` fallback is missing
LabelsFor_NoRest(by_day, cd) == IF cd \in DOMAIN by_day THEN by_day[cd] ELSE <<>>

\* by_day.get(cd, []) or ["Rest"]
LabelsFor(by_day, cd) ==
    LET got == IF cd \in DOMAIN by_day THEN by_day[cd] ELSE <<>>
    IN  IF got = <<>> THEN <<"Rest">> ELSE got

\* mutant: cycle day counted from 0 (the + 1 is missing)
CellFor_ZeroBased(d, start, max_day, by_day) ==
    IF d >= start
    THEN LET cd == d - start
         IN  IF 1 <= cd /\ cd <= max_day
             THEN Entry(d, Some(cd), LabelsFor(by_day, cd))
             ELSE Entry(d, None, <<>>)
    ELSE Entry(d, None, <<>>)

\* mutant: cells outside the window are labelled "Rest" as well
CellFor_RestOutside(d, start, max_day, by_day) ==
    IF d >= start /\ 1 <= (d - start) + 1 /\ (d - start) + 1 <= max_day
    THEN Entry(d, Some((d - start) + 1), LabelsFor(by_day, (d - start) + 1))
    ELSE Entry(d, None, <<"Rest">>)

\* the entry built for date d
CellFor(d, start, max_day, by_day) ==
    IF d >= start
    THEN LET cd == (d - start) + 1
         IN  IF 1 <= cd /\ cd <= max_day
             THEN Entry(d, Some(cd), LabelsFor(by_day, cd))
             ELSE Entry(d, None, <<>>)
    ELSE Entry(d, None, <<>>)

\* one pass of `while d <= last_sat`
WalkDate(w, start, max_day, by_day) ==
    LET week2 == Append(w.week, CellFor(w.d, start, max_day, by_day))
    IN  IF Len(week2) = 7
        THEN [d |-> w.d + 1, week |-> <<>>, grid |-> Append(w.grid, week2)]
        ELSE [d |-> w.d + 1, week |-> week2, grid |-> w.grid]

RECURSIVE WalkLoop(_, _, _, _, _)
WalkLoop(w, last_sat, start, max_day, by_day) ==
    IF w.d <= last_sat
    THEN WalkLoop(WalkDate(w, start, max_day, by_day), last_sat, start, max_day, by_day)
    ELSE w

\* `if week:` pad the partial week with empty entries and append it
RECURSIVE PadWeek(_)
PadWeek(w) ==
    IF w.week = <<>> THEN w
    ELSE IF Len(w.week) < 7
         THEN PadWeek([w EXCEPT !.week = Append(@, Entry(w.d, None, <<>>)), !.d = @ + 1])
         ELSE [w EXCEPT !.grid = Append(@, w.week)]

\* the locals of compute_calendar_grid when it returns; at_exit is the loop
\* state when `while d <= last_sat` ends, before the padding branch
GridLocals(reg, start, cycle_len) ==
    LET agg == AggLoop(AggInit(cycle_len), reg.therapies, cycle_len)
        fs  == first_sun_of(start)
        ln  == last_needed_of(start, agg.max_day)
        ls  == last_sat_of(ln)
        w   == WalkLoop([d |-> fs, week |-> <<>>, grid |-> <<>>], ls, start, agg.max_day, agg.by_day)
    IN  [max_day |-> agg.max_day, by_day |-> agg.by_day, first_sun |-> fs,
         last_needed |-> ln, last_sat |-> ls, at_exit |-> w, grid |-> PadWeek(w).grid]

\* return first_sun, last_sat, max_day, grid
compute_calendar_grid(reg, start, cycle_len) ==
    LET l == GridLocals(reg, start, cycle_len)
    IN  [first_sun |-> l.first_sun, last_sat |-> l.last_sat, max_day |-> l.max_day, grid |-> l.grid]

\* ---------------------------------------------------------------- renderers
\* datetime.date: the year, month and day of an ordinal
DaysBeforeMonth(m, leap) ==
    <<0, 31, 59, 90, 120, 151, 181, 212, 243, 273, 304, 334, 365>>[m]
        + (IF leap /\ m > 2 THEN 1 ELSE 0)

ymd(ordinal) ==
    LET n == ordinal - 1
        n400 == n \div 146097
        r400 == n % 146097
        n100 == r400 \div 36524
        r100 == r400 % 36524
        n4 == r100 \div 1461
        r4 == r100 % 1461
        n1 == r4 \div 365
        r1 == r4 % 365
        y == 400 * n400 + 100 * n100 + 4 * n4 + n1 + 1
        leap == n1 = 3 /\ (n4 # 24 \/ n100 = 3)
        m == CHOOSE k \in 1..12 :
                 DaysBeforeMonth(k, leap) <= r1 /\ r1 < DaysBeforeMonth(k + 1, leap)
    IN  IF n1 = 4 \/ n100 = 4
        THEN [year |-> y - 1, month |-> 12, day |-> 31]
        ELSE [year |-> y, month |-> m, day |-> r1 - DaysBeforeMonth(m, leap) + 1]

\* calendar.month_name and calendar.month_abbr
month_name ==
    <<"January", "February", "March", "April", "May", "June", "July", "August",
      "September", "October", "November", "December">>

month_abbr ==
    <<"Jan", "Feb", "Mar", "Apr", "May", "Jun", "Jul", "Aug", "Sep", "Oct", "Nov", "Dec">>

\* months = month_name[first_sun.month], extended when month or year differ
MonthsBanner(first_sun, last_sat, dash) ==
    IF ymd(first_sun).month # ymd(last_sat).month \/ ymd(first_sun).year # ymd(last_sat).year
    THEN month_name[ymd(first_sun).month] \o dash \o month_name[ymd(last_sat).month]
    ELSE month_name[ymd(first_sun).month]

\* mutant: the year of the first Sunday only
YearBanner_FirstOnly(first_sun, last_sat, dash) == ToString(ymd(first_sun).year)

\* year = str(first_sun.year), or both years when they differ
YearBanner(first_sun, last_sat, dash) ==
    IF ymd(first_sun).year = ymd(last_sat).year
    THEN ToString(ymd(first_sun).year)
    ELSE ToString(ymd(first_sun).year) \o dash \o ToString(ymd(last_sat).year)

\* f"{month_abbr[date.month]} {date.day}"
DateText(d) == month_abbr[ymd(d).month] \o " " \o ToString(ymd(d).day)


colw == 12

RECURSIVE ljust(_, _)
ljust(s, w) == IF Len(s) >= w THEN s ELSE ljust(s \o " ", w)

RECURSIVE JoinStr(_, _)
JoinStr(xs, sep) ==
    IF xs = <<>> THEN ""
    ELSE IF Len(xs) = 1 THEN xs[1]
    ELSE xs[1] \o sep \o JoinStr(Tail(xs), sep)

\* mutant: the labels are written for every cell, cycle day or not
TextBlock_LabelsAlways(c) ==
    IF c.cycle_day # None
    THEN <<DateText(c.date), "Day " \o ToString(c.cycle_day[1])>> \o c.labels
    ELSE <<DateText(c.date), "Rest">>

\* block = [date]; with a cycle day: "Day N" and the labels
TextBlock(c) ==
    IF c.cycle_day # None
    THEN <<DateText(c.date), "Day " \o ToString(c.cycle_day[1])>> \o c.labels
    ELSE <<DateText(c.date)>>

\* mutant: no separator line after the week
WeekSeparator_None == <<>>

\* lines.append("") after the rows of a week
WeekSeparator == <<"">>

\* one pass of `for week in grid`: the maxh rows of the week and the separator
WeekLines(week) ==
    LET cells == [i \in 1..Len(week) |-> TextBlock(week[i])]
        maxh == SetMax({0} \cup { Len(cells[i]) : i \in 1..Len(cells) })
        row(r) == [i \in 1..Len(cells) |->
                      ljust(IF r <= Len(cells[i]) THEN cells[i][r] ELSE "", colw)]
    IN  [r \in 1..maxh |-> JoinStr(row(r), " ")] \o WeekSeparator

RECURSIVE GridLines(_)
GridLines(grid) ==
    IF grid = <<>> THEN <<>> ELSE WeekLines(Head(grid)) \o GridLines(Tail(grid))

\* make_calendar_text: the lines that "\n".join puts together; the em dash of
\* the title is written "--" and an absent note is the empty string
make_calendar_text(reg, start, cycle_len, cycle_label, note) ==
    LET g == compute_calendar_grid(reg, start, cycle_len)
        months == MonthsBanner(g.first_sun, g.last_sat, " - ")
        year == YearBanner(g.first_sun, g.last_sat, "-")
    IN  [called |-> TRUE,
         lines |-> <<reg.name \o " -- " \o cycle_label, months \o " " \o year>>
                   \o (IF note # "" THEN <<"Note: " \o note>> ELSE <<>>)
                   \o <<"Sun       Mon       Tue       Wed       Thu       Fri       Sat">>
                   \o GridLines(g.grid)]

Paragraph(t, al, b, it) == [text |-> t, alignment |-> al, bold |-> b, italic |-> it]

\* the paragraphs export_calendar_docx writes into the table cell of one day
DocxCell(c) ==
    <<Paragraph(DateText(c.date), "RIGHT", TRUE, FALSE)>>
    \o (IF c.cycle_day # None
        THEN <<Paragraph("Day " \o ToString(c.cycle_day[1]), "LEFT", FALSE, TRUE)>>
             \o [i \in 1..Len(c.labels) |->
                    Paragraph(c.labels[i], "LEFT", c.labels[i] \notin {"Rest", "rest", "REST"}, FALSE)]
        ELSE <<>>)

\* export_calendar_docx: False without python-docx; else the banner and the
\* week rows of the table (rows 2.. after the title and the weekday row)
export_calendar_docx(reg, start, cycle_len, has_docx) ==
    IF ~has_docx THEN [called |-> TRUE, ok |-> FALSE, banner |-> "", weeks |-> <<>>]
    ELSE LET g == compute_calendar_grid(reg, start, cycle_len)
         IN  [called |-> TRUE, ok |-> TRUE,
              banner |-> MonthsBanner(g.first_sun, g.last_sat, " - ") \o " "
                         \o YearBanner(g.first_sun, g.last_sat, "-"),
              weeks |-> [w \in 1..Len(g.grid) |->
                            [di \in 1..Len(g.grid[w]) |-> DocxCell(g.grid[w][di])]]]

Div(cl, t) == [class |-> cl, text |-> t]

\* the <div> elements render_calendar_preview writes into the <td> of one day
PreviewCell(c) ==
    <<Div("cell-date", DateText(c.date))>>
    \o (IF c.cycle_day # None
        THEN <<Div("cell-day", "Day " \o ToString(c.cycle_day[1]))>>
             \o [i \in 1..Len(c.labels) |->
                    Div(IF c.labels[i] \in {"Rest", "rest", "REST"} THEN "cell-rest" ELSE "cell-med",
                        c.labels[i])]
        ELSE <<>>)

\* render_calendar_preview: the banner (en dash written "u2013") and the <tr>
\* rows of the table after the header row
render_calendar_preview(reg, start, cycle_len) ==
    LET g == compute_calendar_grid(reg, start, cycle_len)
    IN  [called |-> TRUE,
         banner |-> MonthsBanner(g.first_sun, g.last_sat, " " \o EnDash \o " ") \o " "
                    \o YearBanner(g.first_sun, g.last_sat, EnDash),
         rows |-> [w \in 1..Len(g.grid) |->
                      [di \in 1..Len(g.grid[w]) |-> PreviewCell(g.grid[w][di])]]]

\* ---------------------------------------------------------------- pythonbank: make_calendar
\* parse_frequency_days: only text of the form "days <rest>" is parsed
parse_frequency_days(freq) ==
    IF freq.label = "days" /\ freq.toks # <<>>
    THEN sorted(Range(CollectLegacyDays(freq.toks, <<>>)))
    ELSE <<>>

\* agent_days[t.name] = [d for d in days if 1 <= d <= cycle_length]; max_day
AgentTherapy(acc, t, cycle_length) ==
    LET days == parse_frequency_days(t.frequency)
        kept == SelectSeq(days, LAMBDA d : 1 <= d /\ d <= cycle_length)
    IN  [agent_days |-> [n \in (DOMAIN acc.agent_days) \cup {t.name} |->
                            IF n = t.name THEN kept ELSE acc.agent_days[n]],
         max_day |-> IF days # <<>> THEN Max(acc.max_day, SetMax(Range(days)))
                     ELSE acc.max_day]

RECURSIVE AgentLoop(_, _, _)
AgentLoop(acc, therapies, cycle_length) ==
    IF therapies = <<>> THEN acc
    ELSE AgentLoop(AgentTherapy(acc, Head(therapies), cycle_length), Tail(therapies), cycle_length)

\* for t in reg.therapies: for d in agent_days.get(t.name, []): day_labels[d] += [t.name]
RECURSIVE LabelLoop(_, _, _)
LabelLoop(day_labels, therapies, agent_days) ==
    IF therapies = <<>> THEN day_labels
    ELSE LET t == Head(therapies)
             ds == IF t.name \in DOMAIN agent_days THEN agent_days[t.name] ELSE <<>>
         IN  LabelLoop(AppendAll(day_labels, ds, t.name), Tail(therapies), agent_days)

last_week_sat_of(last_date_needed) ==
    last_date_needed + (((5 - weekday(last_date_needed)) % 7) + 1)

DateLine(d) == [kind |-> "date", n |-> d, s |-> ""]
DayLine(cd) == [kind |-> "day", n |-> cd, s |-> ""]
TextLine(txt) == [kind |-> "text", n |-> 0, s |-> txt]

RECURSIVE TextLines(_)
TextLines(names) ==
    IF names = <<>> THEN <<>> ELSE <<TextLine(Head(names))>> \o TextLines(Tail(names))

\* cell_lines of the cell for date d
cell_lines_of(d, start, max_day, day_labels) ==
    <<DateLine(d)>> \o
    ( IF d >= start
      THEN LET cycle_day == (d - start) + 1
           IN  IF 1 <= cycle_day /\ cycle_day <= max_day
               THEN <<DayLine(cycle_day)>> \o
                    ( IF cycle_day \in DOMAIN day_labels /\ day_labels[cycle_day] # <<>>
                      THEN TextLines(day_labels[cycle_day])
                      ELSE <<TextLine("Rest")>> )
               ELSE <<TextLine("")>>
      ELSE <<>> )

\* one pass of `while d <= last_week_sat`: the seven cells of a week
WeekCells(d, start, max_day, day_labels) ==
    [i \in 1..7 |-> cell_lines_of(d + (i - 1), start, max_day, day_labels)]

RECURSIVE WeekLoop(_, _, _, _, _, _)
WeekLoop(d, weeks, last_week_sat, start, max_day, day_labels) ==
    IF d <= last_week_sat
    THEN WeekLoop(d + 7, Append(weeks, WeekCells(d, start, max_day, day_labels)),
                  last_week_sat, start, max_day, day_labels)
    ELSE weeks

\* the locals of make_calendar when it returns; weeks are the rendered week blocks
make_calendar(reg, start, cycle_length) ==
    LET agg == AgentLoop([agent_days |-> <<>>, max_day |-> cycle_length], reg.therapies, cycle_length)
        day_labels == LabelLoop([d \in 1..agg.max_day |-> <<>>], reg.therapies, agg.agent_days)
        fs == first_sun_of(start)
        ln == start + (agg.max_day - 1)
        ls == last_week_sat_of(ln)
    IN  [max_day |-> agg.max_day, agent_days |-> agg.agent_days, day_labels |-> day_labels,
         first_week_sun |-> fs, last_date_needed |-> ln, last_week_sat |-> ls,
         weeks |-> WeekLoop(fs, <<>>, ls, start, agg.max_day, day_labels)]

\* ---------------------------------------------------------------- RegimenBank (SQLite)
\* The two tables are kept as sequences of rows in rowid order.  AUTOINCREMENT
\* never hands out an id again: sqlite_sequence holds the largest id used.
\* The column updated_at is written and never read; it is left out.
MaxRegimenId == 2
MaxTherapyId == 4

\* regimenbank.Chemotherapy with all its fields; total_doses is None or Some(n)
BankChemotherapy(n, r, ds, f, d, td) ==
    [name |-> n, route |-> r, dose |-> ds, frequency |-> f, duration |-> d, total_doses |-> td]

\* regimenbank.Regimen; disease_state and notes are None or Some(text)
BankRegimen(n, ds, nt, ths) ==
    [name |-> n, disease_state |-> ds, notes |-> nt, therapies |-> ths]

\* str.strip() of a name
RECURSIVE strip(_)
strip(s) ==
    IF Len(s) > 0 /\ SubSeq(s, 1, 1) = " " THEN strip(SubSeq(s, 2, Len(s)))
    ELSE IF Len(s) > 0 /\ SubSeq(s, Len(s), Len(s)) = " " THEN strip(SubSeq(s, 1, Len(s) - 1))
    ELSE s

\* SELECT ... FROM regimens WHERE name = ?
RegimenRows(d, name) == LET Where(r) == r.name = name IN SelectSeq(d.regimens, Where)

\* SELECT ... FROM therapies WHERE regimen_id = ? ORDER BY id
TherapyRows(d, reg_id) == LET Where(t) == t.regimen_id = reg_id IN SelectSeq(d.therapies, Where)

\* the characters of names in ASCII order, for COLLATE NOCASE
Collating ==
    <<" ", "+", "/", "0", "1", "2", "3", "4", "5", "6", "7", "8", "9",
      "a", "d", "e", "n", "s", "v", "x", "y", "z">>

RECURSIVE NoCaseLess(_, _)
NoCaseLess(x, y) ==
    IF y = <<>> THEN FALSE
    ELSE IF x = <<>> THEN TRUE
    ELSE LET cx == CHOOSE i \in 1..Len(Collating) : Collating[i] = LowerChar(Head(x))
             cy == CHOOSE i \in 1..Len(Collating) : Collating[i] = LowerChar(Head(y))
         IN  IF cx = cy THEN NoCaseLess(Tail(x), Tail(y)) ELSE cx < cy

\* SELECT name FROM regimens ORDER BY name COLLATE NOCASE
RECURSIVE OrderByName(_)
OrderByName(names) ==
    IF names = {} THEN <<>>
    ELSE LET Chars(n) == [i \in 1..Len(n) |-> SubSeq(n, i, i)]
             first == CHOOSE n \in names :
                          \A m \in names \ {n} : NoCaseLess(Chars(n), Chars(m))
         IN  <<first>> \o OrderByName(names \ {first})

list_regimens(d) == OrderByName({ d.regimens[i].name : i \in 1..Len(d.regimens) })

get_regimen(d, name) ==
    LET rows == RegimenRows(d, strip(name))
    IN  IF rows = <<>> THEN None
        ELSE LET row == rows[1]
                 cur_t == TherapyRows(d, row.id)
             IN  Some(BankRegimen(row.name, row.disease_state, row.notes,
                     [i \in 1..Len(cur_t) |->
                         BankChemotherapy(cur_t[i].name, cur_t[i].route, cur_t[i].dose,
                             cur_t[i].frequency, cur_t[i].duration, cur_t[i].total_doses)]))

\* UPDATE regimens SET disease_state = ?, notes = ? WHERE id = ?
UpdateRegimen(d, reg_id, reg) ==
    [d EXCEPT !.regimens =
        [i \in 1..Len(d.regimens) |->
            IF d.regimens[i].id = reg_id
            THEN [d.regimens[i] EXCEPT !.disease_state = reg.disease_state, !.notes = reg.notes]
            ELSE d.regimens[i]]]

\* mutant: the old therapy rows are kept
DeleteTherapies_Kept(d, reg_id) == d

\* DELETE FROM therapies WHERE regimen_id = ?
DeleteTherapies(d, reg_id) ==
    LET Where(t) == t.regimen_id # reg_id IN [d EXCEPT !.therapies = SelectSeq(d.therapies, Where)]

\* INSERT INTO regimens(name, disease_state, notes, updated_at)
InsertRegimen(d, reg) ==
    LET id == d.sqlite_sequence.regimens + 1
    IN  [d EXCEPT !.regimens = Append(d.regimens,
                      [id |-> id, name |-> reg.name,
                       disease_state |-> reg.disease_state, notes |-> reg.notes]),
                  !.sqlite_sequence.regimens = id]

\* the total_doses written for t: auto-calculated if missing
total_doses_of(t) ==
    IF t.total_doses # None THEN t.total_doses ELSE Some(Len(parse_day_spec(t.duration)))

\* INSERT INTO therapies(regimen_id, name, route, dose, frequency, duration, total_doses)
InsertTherapy(d, reg_id, t) ==
    LET id == d.sqlite_sequence.therapies + 1
    IN  [d EXCEPT !.therapies = Append(d.therapies,
                      [id |-> id, regimen_id |-> reg_id, name |-> t.name, route |-> t.route,
                       dose |-> t.dose, frequency |-> t.frequency, duration |-> t.duration,
                       total_doses |-> total_doses_of(t)]),
                  !.sqlite_sequence.therapies = id]

\* for t in reg.therapies
RECURSIVE InsertTherapies(_, _, _)
InsertTherapies(d, reg_id, therapies) ==
    IF therapies = <<>> THEN d
    ELSE InsertTherapies(InsertTherapy(d, reg_id, Head(therapies)), reg_id, Tail(therapies))

upsert_regimen(d, reg) ==
    LET row == RegimenRows(d, reg.name)
        d1 == IF row # <<>>
              THEN DeleteTherapies(UpdateRegimen(d, row[1].id, reg), row[1].id)
              ELSE InsertRegimen(d, reg)
        reg_id == RegimenRows(d1, reg.name)[1].id
    IN  InsertTherapies(d1, reg_id, reg.therapies)

\* mutant: foreign keys are not enforced
Cascade_Off(d, ids) == d

\* FOREIGN KEY (regimen_id) REFERENCES regimens(id) ON DELETE CASCADE
Cascade(d, ids) ==
    LET Where(t) == t.regimen_id \notin ids IN [d EXCEPT !.therapies = SelectSeq(d.therapies, Where)]

\* returns the tables after the call and the value returned
delete_regimen(d, name) ==
    LET gone == RegimenRows(d, strip(name))
        Where(r) == r.name # strip(name)
        d1 == [d EXCEPT !.regimens = SelectSeq(d.regimens, Where)]
    IN  [db |-> Cascade(d1, { gone[i].id : i \in 1..Len(gone) }), ret |-> Len(gone) > 0]

save_as(d, reg, new_name) == upsert_regimen(d, [reg EXCEPT !.name = new_name])

\* ---------------------------------------------------------------- state
\* reg, start, cycle_len: the arguments of the calls; bank: the stored regimens
\* locals, ret: locals and return value of a finished compute_calendar_grid
\* legacy: locals of a finished make_calendar
\* calls, frames: two calls of compute_calendar_grid run step by step, each
\*   with its position, the frame holding its locals, and its return value
VARIABLES reg, start, cycle_len, bank, locals, ret, legacy, calls, frames

\* text: a day-map text under edit, as its label, its tokens and the separator
\*   written between them; parsed: how parse_day_spec ended on it
\* prev: the edit last made to the text and the result before it
VARIABLES text, parsed, prev

parseVars == <<text, parsed, prev>>

\* note: the note argument of the renderers; txt, docx, html: what
\*   make_calendar_text, export_calendar_docx and render_calendar_preview made
VARIABLES note, txt, docx, html

renderVars == <<note, txt, docx, html>>

\* work: the therapies of the regimen under edit; last: the last edit made
VARIABLES work, last

editVars == <<work, last>>

\* db: the tables of the SQLite file; out: the last call made on the bank
VARIABLES db, out

bankVars == <<db, out>>

\* heap: the objects of a command-line session; cli: where the session
\*   stands, what it works on and what was typed last
VARIABLES heap, cli

cliVars == <<heap, cli>>

\* mem: the dictionary a process of the JSON bank holds; disk: the
\*   database file and the temporary file of a save; saving: the position
\*   of the save under way; seen: what the last reader of the database
\*   file got; upd: the last call made on the JSON bank
VARIABLES mem, disk, saving, seen, upd

jsonVars == <<mem, disk, saving, seen, upd>>

\* page: the last run of page_builder in the Streamlit application
VARIABLES page

pageVars == <<page>>

\* the variables of the regimen store and of the sessions that save to it
laterVars == <<bankVars, cliVars, jsonVars, pageVars>>

otherVars == <<parseVars, renderVars, editVars, laterVars>>

vars == <<reg, start, cycle_len, bank, locals, ret, legacy, calls, frames, otherVars>>

NotCalled == [called |-> FALSE]

ParseIdle ==
    text = [label |-> <<>>, toks |-> <<>>, sep |-> <<>>] /\ parsed = NotCalled /\ prev = NotCalled

RenderIdle == note = "" /\ txt = NotCalled /\ docx = NotCalled /\ html = NotCalled

EditIdle == work = <<>> /\ last = NotCalled

\* a database file just created by _init_schema
EmptyDb ==
    [regimens |-> <<>>, therapies |-> <<>>, sqlite_sequence |-> [regimens |-> 0, therapies |-> 0]]

BankIdle == db = EmptyDb /\ out = NotCalled

CliIdle == heap = <<>> /\ cli = NotCalled

\* no process of the JSON bank has run
JsonIdle ==
    /\ mem = <<>>
    /\ disk = [db |-> None, tmp |-> None, litter |-> 0]
    /\ saving = NotCalled
    /\ seen = NotCalled
    /\ upd = NotCalled

PageIdle == page = NotCalled

LaterIdle == BankIdle /\ CliIdle /\ JsonIdle /\ PageIdle

Callers == {1, 2}

Idle == [pc |-> "idle", frame |-> 0, ret |-> NotCalled]

Init ==
    /\ reg \in Regimens
    /\ start \in Starts
    /\ cycle_len \in CycleLens
    /\ bank = [n \in {reg.name} |-> reg]
    /\ locals = NotCalled
    /\ ret = NotCalled
    /\ legacy = NotCalled
    /\ calls = [c \in Callers |-> Idle]
    /\ frames = <<>>
    /\ ParseIdle
    /\ LaterIdle
    /\ RenderIdle
    /\ EditIdle

\* a call compute_calendar_grid(reg, start, cycle_len)
ComputeGrid ==
    /\ ret = NotCalled
    /\ locals' = GridLocals(reg, start, cycle_len)
    /\ ret' = compute_calendar_grid(reg, start, cycle_len)
    /\ UNCHANGED <<otherVars, reg, start, cycle_len, bank, legacy, calls, frames>>

\* a call make_calendar(reg, start, cycle_len) of the JSON-era script
MakeCalendar ==
    /\ legacy = NotCalled
    /\ legacy' = make_calendar(reg, start, cycle_len)
    /\ UNCHANGED <<otherVars, reg, start, cycle_len, bank, locals, ret, calls, frames>>

Next == ComputeGrid \/ MakeCalendar

Spec == Init /\ [][Next]_vars

\* ---------------------------------------------------------------- interleaved calls
\* mutant: every call uses the same frame (locals kept at module level)
NewFrame_Shared(fs) == 1

\* entering the function creates a new frame for its locals
NewFrame(fs) == Len(fs) + 1

SetFrame(fs, f, v) ==
    IF f \in DOMAIN fs THEN [fs EXCEPT ![f] = v] ELSE Append(fs, v)

\* max_day = cycle_len; by_day = {d: [] for d in range(1, cycle_len + 1)}
Enter(c) ==
    /\ calls[c].pc = "idle"
    /\ LET f == NewFrame(frames)
       IN  /\ frames' = SetFrame(frames, f,
                  [agg |-> AggInit(cycle_len), i |-> 1,
                   first_sun |-> 0, last_needed |-> 0, last_sat |-> 0,
                   w |-> [d |-> 0, week |-> <<>>, grid |-> <<>>]])
           /\ calls' = [calls EXCEPT ![c] = [pc |-> "agg", frame |-> f, ret |-> NotCalled]]
    /\ UNCHANGED <<otherVars, reg, start, cycle_len, bank, locals, ret, legacy>>

\* one pass of `for t in reg.therapies`
AggStep(c) ==
    /\ calls[c].pc = "agg"
    /\ LET f == calls[c].frame
           fr == frames[f]
       IN  /\ fr.i <= Len(reg.therapies)
           /\ frames' = [frames EXCEPT ![f] =
                  [fr EXCEPT !.agg = AggTherapy(fr.agg, reg.therapies[fr.i], cycle_len),
                             !.i = @ + 1]]
    /\ UNCHANGED <<otherVars, reg, start, cycle_len, bank, locals, ret, legacy, calls>>

\* first_sun, last_needed, last_sat; grid = []; d = first_sun; week = []
Bounds(c) ==
    /\ calls[c].pc = "agg"
    /\ LET f == calls[c].frame
           fr == frames[f]
           fs == first_sun_of(start)
           ln == last_needed_of(start, fr.agg.max_day)
       IN  /\ fr.i > Len(reg.therapies)
           /\ frames' = [frames EXCEPT ![f] =
                  [fr EXCEPT !.first_sun = fs, !.last_needed = ln, !.last_sat = last_sat_of(ln),
                             !.w = [d |-> fs, week |-> <<>>, grid |-> <<>>]]]
    /\ calls' = [calls EXCEPT ![c].pc = "walk"]
    /\ UNCHANGED <<otherVars, reg, start, cycle_len, bank, locals, ret, legacy>>

\* the loop `while d <= last_sat`
Walk(c) ==
    /\ calls[c].pc = "walk"
    /\ LET f == calls[c].frame
           fr == frames[f]
       IN  frames' = [frames EXCEPT ![f] =
               [fr EXCEPT !.w = WalkLoop(fr.w, fr.last_sat, start, fr.agg.max_day, fr.agg.by_day)]]
    /\ calls' = [calls EXCEPT ![c].pc = "pad"]
    /\ UNCHANGED <<otherVars, reg, start, cycle_len, bank, locals, ret, legacy>>

\* the padding branch and `return first_sun, last_sat, max_day, grid`
Return(c) ==
    /\ calls[c].pc = "pad"
    /\ LET f == calls[c].frame
           fr == frames[f]
       IN  calls' = [calls EXCEPT ![c] =
               [pc |-> "done", frame |-> f,
                ret |-> [first_sun |-> fr.first_sun, last_sat |-> fr.last_sat,
                         max_day |-> fr.agg.max_day, grid |-> PadWeek(fr.w).grid]]]
    /\ UNCHANGED <<otherVars, reg, start, cycle_len, bank, locals, ret, legacy, frames>>

\* the regimens the interleaved calls are run on
CallTherapies ==
    { Chemotherapy(n, FreeText, m) :
        n \in Names,
        m \in { Text("days", <<RangeTok(3, 1), IntTok(0), RangeTok(1, 2)>>),
                 Text("", <<IntTok(1), IntTok(MaxDayNum)>>) } }

InitCalls ==
    /\ Init
    /\ reg \in { Regimen(ths) : ths \in SeqsUpTo(CallTherapies, MaxTherapies) }

NextCalls ==
    \E c \in Callers : Enter(c) \/ AggStep(c) \/ Bounds(c) \/ Walk(c) \/ Return(c)

SpecCalls == InitCalls /\ [][NextCalls]_vars

\* ---------------------------------------------------------------- day-map texts
MaxToks == 2

\* labels as users write them; the empty one is the text without a label
LabelTexts == { <<>>, <<"D", "a", "y", "s", " ">>, <<"d", "a", "y", "s", ":", " ">>, <<"D", "A", "Y", "-">> }

\* well-formed tokens: bare integers and ranges A-B with A <= B
GoodTokens == { <<"3">>, <<"1", "2">>, <<"2", "-", "4">>, <<"0", "-", "2">> }

\* tokens that are no integer >= 1 and no range A-B with A <= B
MalformedTokens == { <<"x">>, <<"4", "-", "2">>, <<"1", "-">>, <<"-", "3">>, <<"3", "x">> }

Separators == { <<",", " ">>, <<" ">> }

DayText(l, ts, sp) == [label |-> l, toks |-> ts, sep |-> sp]

\* 'Days 1-7, 15'   '1-3, 5-7'   'Days 1, 3, 5'   'completely invalid text'   'days'
Example_Days_1_7_15 == DayText(<<"D", "a", "y", "s", " ">>, <<<<"1", "-", "7">>, <<"1", "5">>>>, <<",", " ">>)
Example_1_3_5_7 == DayText(<<>>, <<<<"1", "-", "3">>, <<"5", "-", "7">>>>, <<",", " ">>)
Example_Days_1_3_5 == DayText(<<"D", "a", "y", "s", " ">>, <<<<"1">>, <<"3">>, <<"5">>>>, <<",", " ">>)
Example_Invalid == DayText(<<>>, <<<<"c", "o", "m", "p", "l", "e", "t", "e", "l", "y">>, <<"i", "n", "v", "a", "l", "i", "d">>, <<"t", "e", "x", "t">>>>, <<" ">>)
Example_OnlyLabel == DayText(<<"d", "a", "y", "s">>, <<>>, <<>>)

DayTexts ==
    { DayText(l, ts, sp) :
        l \in LabelTexts,
        ts \in SeqsUpTo(GoodTokens \cup MalformedTokens, MaxToks),
        sp \in Separators }
    \cup { Example_Days_1_7_15, Example_1_3_5_7, Example_Days_1_3_5, Example_Invalid,
           Example_OnlyLabel }

RECURSIVE Join(_, _)
Join(ts, sp) ==
    IF ts = <<>> THEN <<>>
    ELSE IF Len(ts) = 1 THEN ts[1]
    ELSE ts[1] \o sp \o Join(Tail(ts), sp)

\* the text as the user typed it
Raw(t) == t.label \o Join(t.toks, t.sep)

\* every hyphen typed as an en dash
WithEnDash(s) == [i \in 1..Len(s) |-> IF s[i] = "-" THEN EnDash ELSE s[i]]

GridIdle ==
    /\ reg = Regimen(<<>>)
    /\ start = StartBase
    /\ cycle_len = 1
    /\ bank = [n \in {reg.name} |-> reg]
    /\ locals = NotCalled
    /\ ret = NotCalled
    /\ legacy = NotCalled
    /\ calls = [c \in Callers |-> Idle]
    /\ frames = <<>>

gridVars == <<reg, start, cycle_len, bank, locals, ret, legacy, calls, frames>>

\* the variables of the calendar engine, the parser, the renderers, the
\* editors and the page
earlyVars == <<gridVars, parseVars, renderVars, editVars, pageVars>>

EarlyIdle == GridIdle /\ ParseIdle /\ RenderIdle /\ EditIdle /\ PageIdle

\* the same, without the page
engineVars == <<gridVars, parseVars, renderVars, editVars>>

EngineIdle == GridIdle /\ ParseIdle /\ RenderIdle /\ EditIdle

InitParse ==
    /\ GridIdle
    /\ LaterIdle
    /\ RenderIdle
    /\ EditIdle
    /\ text \in DayTexts
    /\ parsed = NotCalled
    /\ prev = NotCalled

\* a call parse_day_spec(text)
ParseDaySpec ==
    /\ parsed = NotCalled
    /\ parsed' = parse_day_spec_text(Raw(text))
    /\ UNCHANGED <<gridVars, laterVars, renderVars, editVars, text, prev>>

Edited(k, m, pos) ==
    [called |-> TRUE, kind |-> k, m |-> m, pos |-> pos, label |-> text.label, parsed |-> parsed]

\* the user puts the malformed token m at position pos of the token list
InsertMalformed ==
    /\ parsed # NotCalled
    /\ prev = NotCalled
    /\ Len(text.toks) <= MaxToks
    /\ text.sep # <<>>
    /\ \E m \in MalformedTokens, pos \in 1..(Len(text.toks) + 1) :
          /\ text' = [text EXCEPT !.toks = SubSeq(@, 1, pos - 1) \o <<m>> \o SubSeq(@, pos, Len(@))]
          /\ prev' = Edited("insert", m, pos)
    /\ parsed' = NotCalled
    /\ UNCHANGED <<gridVars, laterVars, renderVars, editVars>>

\* the user writes a label in front of a text that has none
AddLabel ==
    /\ parsed # NotCalled
    /\ prev = NotCalled
    /\ text.label = <<>>
    /\ \E l \in LabelTexts \ {<<>>} :
          /\ text' = [text EXCEPT !.label = l]
          /\ prev' = Edited("label", <<>>, 0)
    /\ parsed' = NotCalled
    /\ UNCHANGED <<gridVars, laterVars, renderVars, editVars>>

\* the user retypes every hyphen of the text as an en dash
TypeEnDash ==
    /\ parsed # NotCalled
    /\ prev = NotCalled
    /\ \E i \in 1..Len(Raw(text)) : Raw(text)[i] = "-"
    /\ text' = [label |-> WithEnDash(text.label),
                toks |-> [i \in 1..Len(text.toks) |-> WithEnDash(text.toks[i])],
                sep |-> text.sep]
    /\ prev' = Edited("endash", <<>>, 0)
    /\ parsed' = NotCalled
    /\ UNCHANGED <<gridVars, laterVars, renderVars, editVars>>

NextParse == ParseDaySpec \/ InsertMalformed \/ AddLabel \/ TypeEnDash

SpecParse == InitParse /\ [][NextParse]_vars

\* ---------------------------------------------------------------- rendering a calendar
\* the start dates: one with the year change in its first week, one on a
\* Sunday, one at the end of a month
RenderStarts == {StartBase, StartBase + 4, StartBase + 30}

InitRender ==
    /\ reg \in { Regimen(ths) : ths \in SeqsUpTo(CallTherapies, MaxTherapies) }
    /\ start \in RenderStarts
    /\ cycle_len \in {1, 7, MaxCycleLen}
    /\ bank = [n \in {reg.name} |-> reg]
    /\ locals = NotCalled
    /\ ret = NotCalled
    /\ legacy = NotCalled
    /\ calls = [c \in Callers |-> Idle]
    /\ frames = <<>>
    /\ ParseIdle
    /\ LaterIdle
    /\ EditIdle
    /\ note \in {"", "Hold"}
    /\ txt = NotCalled
    /\ docx = NotCalled
    /\ html = NotCalled

\* a call make_calendar_text(reg, start, cycle_len, cycle_label, note)
MakeCalendarText ==
    /\ txt = NotCalled
    /\ txt' = make_calendar_text(reg, start, cycle_len, "Cycle 1", note)
    /\ UNCHANGED <<gridVars, laterVars, parseVars, editVars, note, docx, html>>

\* a call export_calendar_docx(...), with or without python-docx installed
ExportCalendarDocx ==
    /\ docx = NotCalled
    /\ \E has_docx \in BOOLEAN : docx' = export_calendar_docx(reg, start, cycle_len, has_docx)
    /\ UNCHANGED <<gridVars, laterVars, parseVars, editVars, note, txt, html>>

\* a call render_calendar_preview(reg, start, cycle_len, label, note)
RenderCalendarPreview ==
    /\ html = NotCalled
    /\ html' = render_calendar_preview(reg, start, cycle_len)
    /\ UNCHANGED <<gridVars, laterVars, parseVars, editVars, note, txt, docx>>

NextRender == MakeCalendarText \/ ExportCalendarDocx \/ RenderCalendarPreview

SpecRender == InitRender /\ [][NextRender]_vars

\* ---------------------------------------------------------------- editing a regimen
MaxEditLen == 2

\* key = name.strip().lower(), on the characters of the name
NameKey(name) == lower(rstrip(lstrip([i \in 1..Len(name) |-> SubSeq(name, i, i)])))

\* mutant: the names are compared as they are written
upsert_chemo_ExactName(therapies, c) ==
    LET hits == { i \in 1..Len(therapies) : therapies[i].name = c.name }
    IN  IF hits # {} THEN [therapies EXCEPT ![SetMin(hits)] = c] ELSE Append(therapies, c)

\* Regimen.upsert_chemo: replace the first therapy with the key, else append
upsert_chemo(therapies, c) ==
    LET key == NameKey(c.name)
        hits == { i \in 1..Len(therapies) : NameKey(therapies[i].name) = key }
    IN  IF hits # {} THEN [therapies EXCEPT ![SetMin(hits)] = c] ELSE Append(therapies, c)

\* therapies.pop(k - 1)
pop(therapies, k) == SubSeq(therapies, 1, k - 1) \o SubSeq(therapies, k + 1, Len(therapies))

\* an input left empty
Blank == Text("", <<>>)

\* Chemotherapy("", "", "", "", "")
BlankAgent == Chemotherapy("", Blank, Blank)

\* _req(label, pre): the stripped input, or the prefill when the input is empty
req(typed, pre, none) == IF typed # none THEN typed ELSE pre

\* _edit_agent(base) for the inputs `typed`
edit_agent(base, typed) ==
    Chemotherapy(req(typed.name, base.name, ""),
                 req(typed.frequency, base.frequency, Blank),
                 req(typed.duration, base.duration, Blank))

\* _req asks again ("Required.") while input and prefill are both empty
Answers(base, typed) ==
    /\ typed.name # "" \/ base.name # ""
    /\ typed.frequency # Blank \/ base.frequency # Blank
    /\ typed.duration # Blank \/ base.duration # Blank

\* the day map typed in the edits:  "1, N"
TypedMap == Text("", <<IntTok(1), IntTok(MaxDayNum)>>)

\* what a user types into the prompts of _edit_agent (already stripped); the
\* name and the day map may be left empty to keep the prefill
TypedAgents ==
    { Chemotherapy(n, FreeText, d) : n \in {"", "Aza", "aza", "Ven"}, d \in {Blank, TypedMap} }

\* what a user submits with the therapy form: name and day map are required
FormAgents == { t \in TypedAgents : t.name # "" /\ t.duration # Blank }

\* the arguments of direct calls of upsert_chemo
UpsertAgents == { Chemotherapy(n, FreeText, TypedMap) : n \in {"Aza", " AZA ", "Ven"} }

\* the regimen stored in the bank
Library ==
    << Chemotherapy("Aza", FreeText, Text("days", <<RangeTok(3, 1), IntTok(0), RangeTok(1, 2)>>)),
       Chemotherapy("Ven", FreeText, Text("", <<IntTok(1), IntTok(MaxDayNum)>>)) >>

\* build_agent_catalog: per key, the first therapy of every variant
Catalog(b) ==
    UNION { { r.therapies[i] : i \in
                { i \in 1..Len(r.therapies) :
                    ~\E j \in 1..(i - 1) :
                        /\ NameKey(r.therapies[j].name) = NameKey(r.therapies[i].name)
                        /\ r.therapies[j].frequency = r.therapies[i].frequency
                        /\ r.therapies[j].duration = r.therapies[i].duration } }
            : r \in { b[n] : n \in DOMAIN b } }

InitEdit ==
    /\ reg = Regimen(Library)
    /\ start = StartBase
    /\ cycle_len = MaxCycleLen
    /\ bank = [n \in {reg.name} |-> reg]
    /\ locals = NotCalled
    /\ ret = NotCalled
    /\ legacy = NotCalled
    /\ calls = [c \in Callers |-> Idle]
    /\ frames = <<>>
    /\ ParseIdle
    /\ LaterIdle
    /\ RenderIdle
    /\ work \in {<<>>, Library}
    /\ last = NotCalled

\* before: the list before the call, kept for upsert_chemo and for the form
Did(op, ui, c, before) == [called |-> TRUE, op |-> op, ui |-> ui, c |-> c, before |-> before]

\* the change of the therapy form is not kept until the page runs again
InSession == IF last = NotCalled THEN TRUE ELSE last.ui # "form"

\* a call work.upsert_chemo(c)
UpsertChemo ==
    /\ InSession
    /\ \E c \in UpsertAgents :
          /\ Len(upsert_chemo(work, c)) <= MaxEditLen
          /\ work' = upsert_chemo(work, c)
          /\ last' = Did("upsert", "api", c, work)
    /\ UNCHANGED <<gridVars, laterVars, parseVars, renderVars>>

\* "Add new": upsert_chemo(Chemotherapy("", ...)); therapies[-1] = _edit_agent(therapies[-1])
AddNew(ui) ==
    /\ InSession
    /\ \E typed \in TypedAgents :
          LET w1 == upsert_chemo(work, BlankAgent)
          IN  /\ Len(w1) <= MaxEditLen
              /\ Answers(w1[Len(w1)], typed)
              /\ work' = [w1 EXCEPT ![Len(w1)] = edit_agent(w1[Len(w1)], typed)]
              /\ last' = Did("add_new", ui, BlankAgent, <<>>)
    /\ UNCHANGED <<gridVars, laterVars, parseVars, renderVars>>

\* "Add from existing library": upsert_chemo(_edit_agent(tmpl))
AddFromCatalog(ui) ==
    /\ InSession
    /\ \E tmpl \in Catalog(bank), typed \in TypedAgents :
          /\ Len(upsert_chemo(work, edit_agent(tmpl, typed))) <= MaxEditLen
          /\ work' = upsert_chemo(work, edit_agent(tmpl, typed))
          /\ last' = Did("add_from_catalog", ui, edit_agent(tmpl, typed), <<>>)
    /\ UNCHANGED <<gridVars, laterVars, parseVars, renderVars>>

\* "Edit": therapies[k - 1] = _edit_agent(therapies[k - 1])
EditAgent(ui) ==
    /\ InSession
    /\ \E k \in 1..Len(work), typed \in TypedAgents :
          /\ work' = [work EXCEPT ![k] = edit_agent(work[k], typed)]
          /\ last' = Did("edit", ui, BlankAgent, <<>>)
    /\ UNCHANGED <<gridVars, laterVars, parseVars, renderVars>>

\* "Remove agent": therapies.pop(k - 1)
RemoveAgent(ui) ==
    /\ InSession
    /\ \E k \in 1..Len(work) :
          /\ work' = pop(work, k)
          /\ last' = Did("remove", ui, BlankAgent, <<>>)
    /\ UNCHANGED <<gridVars, laterVars, parseVars, renderVars>>

\* "Apply therapy": therapies[idx] = new_t in edit mode, else therapies.append(new_t)
FormApply ==
    /\ InSession
    /\ \E edit_mode \in BOOLEAN, new_t \in FormAgents :
          \/ /\ edit_mode /\ work # <<>>
             /\ \E idx \in 1..Len(work) : work' = [work EXCEPT ![idx] = new_t]
          \/ /\ ~(edit_mode /\ work # <<>>)
             /\ Len(Append(work, new_t)) <= MaxEditLen
             /\ work' = Append(work, new_t)
    /\ last' = Did("apply", "form", BlankAgent, work)
    /\ UNCHANGED <<gridVars, laterVars, parseVars, renderVars>>

\* "Remove selected therapy": therapies.pop(idx_to_remove)
FormRemove ==
    /\ InSession
    /\ \E idx \in 1..Len(work) : work' = pop(work, idx)
    /\ last' = Did("remove", "form", BlankAgent, work)
    /\ UNCHANGED <<gridVars, laterVars, parseVars, renderVars>>

\* the page runs again: therapies = [t for t in base.therapies]
FormRerun ==
    /\ ~InSession
    /\ work' = last.before
    /\ last' = NotCalled
    /\ UNCHANGED <<gridVars, laterVars, parseVars, renderVars>>

\* the menus of wizard and of prep_editor offer the same four edits
NextEdit ==
    \/ UpsertChemo
    \/ \E ui \in {"wizard", "prep"} :
          AddNew(ui) \/ AddFromCatalog(ui) \/ EditAgent(ui) \/ RemoveAgent(ui)
    \/ FormApply \/ FormRemove \/ FormRerun

SpecEdit == InitEdit /\ [][NextEdit]_vars

\* ---------------------------------------------------------------- calls on the bank
\* names as callers pass them; " 7+3 " carries surrounding whitespace
BankNames == {"7+3", " 7+3 ", "AZA/VEN"}

\* one agent whose total doses are left to the bank, one with a typed total
Azacitidine ==
    BankChemotherapy("Azacitidine", "SC", "75 mg/m2", FreeText,
                     Text("days", <<RangeTok(1, MaxDayNum)>>), None)
Venetoclax ==
    BankChemotherapy("Venetoclax", "PO", "400 mg", Text("", <<BadTok, BadTok>>),
                     Text("", <<IntTok(1), IntTok(3)>>), Some(28))

\* disease state, notes and therapies a caller stores under a name
BankContents ==
    { <<None, None, <<>>>>,
      <<Some("AML"), Some("inpatient"), <<Azacitidine, Venetoclax>>>>,
      <<Some("AML"), None, <<Venetoclax, Azacitidine>>>>,
      <<None, Some("inpatient"), <<Venetoclax>>>> }

BankRegimens == { BankRegimen(n, c[1], c[2], c[3]) : n \in BankNames, c \in BankContents }

\* the ids the call would use stay within the modelled range
IdsLeft(d, r) ==
    /\ d.sqlite_sequence.therapies + Len(r.therapies) <= MaxTherapyId
    /\ RegimenRows(d, r.name) = <<>> => d.sqlite_sequence.regimens < MaxRegimenId

Call(op, arg, before, result) ==
    [called |-> TRUE, op |-> op, arg |-> arg, before |-> before, ret |-> result]

InitBank ==
    /\ EarlyIdle
    /\ CliIdle
    /\ JsonIdle
    /\ db = EmptyDb
    /\ out = NotCalled

\* a call bank.upsert_regimen(r)
UpsertRegimen ==
    /\ \E r \in BankRegimens :
          /\ IdsLeft(db, r)
          /\ db' = upsert_regimen(db, r)
          /\ out' = Call("upsert_regimen", r, db, None)
    /\ UNCHANGED <<earlyVars, cliVars, jsonVars>>

\* a call bank.save_as(r, new_name) on a regimen read from the bank
SaveAs ==
    /\ \E n \in BankNames, new_name \in BankNames :
          /\ get_regimen(db, n) # None
          /\ IdsLeft(db, [get_regimen(db, n)[1] EXCEPT !.name = new_name])
          /\ db' = save_as(db, get_regimen(db, n)[1], new_name)
          /\ out' = Call("save_as", [get_regimen(db, n)[1] EXCEPT !.name = new_name], db, None)
    /\ UNCHANGED <<earlyVars, cliVars, jsonVars>>

\* a call bank.get_regimen(name)
GetRegimen ==
    /\ \E name \in BankNames : out' = Call("get_regimen", name, db, get_regimen(db, name))
    /\ UNCHANGED <<earlyVars, cliVars, jsonVars, db>>

\* a call bank.list_regimens()
ListRegimens ==
    /\ out' = Call("list_regimens", None, db, list_regimens(db))
    /\ UNCHANGED <<earlyVars, cliVars, jsonVars, db>>

\* a call bank.delete_regimen(name)
DeleteRegimen ==
    /\ \E name \in BankNames :
          /\ db' = delete_regimen(db, name).db
          /\ out' = Call("delete_regimen", name, db, delete_regimen(db, name).ret)
    /\ UNCHANGED <<earlyVars, cliVars, jsonVars>>

NextBank == UpsertRegimen \/ SaveAs \/ GetRegimen \/ ListRegimens \/ DeleteRegimen

SpecBank == InitBank /\ [][NextBank]_vars

\* ---------------------------------------------------------------- objects of a session
\* The heap is a sequence of objects; an address is an index into it.  A
\* Regimen object refers to its list by address and a list holds the
\* addresses of its Chemotherapy objects, so that two names for one list
\* see each other's writes.

\* Regimen(name, disease_state, notes, therapies) made of fresh objects
NewRegimen(h, r) ==
    LET n == Len(r.therapies)
        h1 == h \o [i \in 1..n |-> [type |-> "Chemotherapy", v |-> r.therapies[i]]]
        h2 == Append(h1, [type |-> "list", items |-> [i \in 1..n |-> Len(h) + i]])
    IN  Append(h2, [type |-> "Regimen", name |-> r.name, disease_state |-> r.disease_state,
                    notes |-> r.notes, therapies |-> Len(h2)])

\* the regimen an object stands for, as upsert_regimen and the renderers read it
Deref(h, a) ==
    LET items == h[h[a].therapies].items
    IN  BankRegimen(h[a].name, h[a].disease_state, h[a].notes,
                    [i \in 1..Len(items) |-> h[items[i]].v])

\* mutant: work = Regimen(base.name, ..., base.therapies), the list is shared
CopyRegimen_SharedList(h, a) == Append(h, h[a])

\* Regimen(base.name, ..., [replace(t) for t in base.therapies])
CopyRegimen(h, a) == NewRegimen(h, Deref(h, a))

\* self.therapies after self.upsert_chemo(c), c being the object at address ca
ListUpsert(h, a, ca) ==
    LET items == h[h[a].therapies].items
        named == [i \in 1..Len(items) |-> [name |-> h[items[i]].v.name, addr |-> items[i]]]
        after == upsert_chemo(named, [name |-> h[ca].v.name, addr |-> ca])
    IN  [h EXCEPT ![h[a].therapies].items = [i \in 1..Len(after) |-> after[i].addr]]

\* str(n)
RECURSIVE str(_)
str(n) ==
    IF n < 0 THEN <<"-">> \o str(0 - n)
    ELSE IF n < 10 THEN <<Digits[n + 1]>>
    ELSE str(n \div 10) \o <<Digits[(n % 10) + 1]>>

\* _edit_agent(b) with all six prompts; td_raw is the stripped total-doses input
edit_agent_full(b, typed) ==
    LET td_default == IF b.total_doses = None THEN <<>> ELSE str(b.total_doses[1])
        td_val == IF typed.td_raw = <<>> /\ td_default # <<>>
                  THEN IF int(td_default).ok THEN Some(int(td_default).val) ELSE None
                  ELSE IF typed.td_raw = <<>> THEN None
                  ELSE IF int(typed.td_raw).ok THEN Some(int(typed.td_raw).val) ELSE None
    IN  BankChemotherapy(req(typed.name, b.name, ""), req(typed.route, b.route, ""),
                         req(typed.dose, b.dose, ""), req(typed.frequency, b.frequency, Blank),
                         req(typed.duration, b.duration, Blank), td_val)

\* every _req of _edit_agent gets an answer
AnswersFull(b, typed) ==
    /\ Answers(b, typed)
    /\ typed.route # "" \/ b.route # ""
    /\ typed.dose # "" \/ b.dose # ""

\* build_agent_catalog and choose_agent_from_catalog: the templates on offer
\* are, per name key, the first stored therapy of every variant
build_agent_catalog(d) ==
    LET names == list_regimens(d)
        all == [i \in 1..Len(d.therapies) |-> d.therapies[i]]
        Pos(t) == <<CHOOSE k \in 1..Len(names) :
                        names[k] = (CHOOSE r \in Range(d.regimens) : r.id = t.regimen_id).name,
                    t.id>>
        Before(s, t) == Pos(s)[1] < Pos(t)[1] \/ (Pos(s)[1] = Pos(t)[1] /\ Pos(s)[2] < Pos(t)[2])
        Same(s, t) == /\ NameKey(s.name) = NameKey(t.name)
                      /\ s.route = t.route /\ s.dose = t.dose
                      /\ s.frequency = t.frequency /\ s.duration = t.duration
    IN  { BankChemotherapy(t.name, t.route, t.dose, t.frequency, t.duration, t.total_doses) :
            t \in { t \in Range(all) : ~\E s \in Range(all) : Same(s, t) /\ Before(s, t) } }

\* ---------------------------------------------------------------- the command-line session
\* One run of `wizard` or of `calendar` up to the return of prep_editor.
\* Every input() is one action; the text typed is the action's input.
\* MaxEdits: the edits and "Persist" choices taken before the session finishes
MaxEdits == 2

\* what is typed into the prompts of _edit_agent: a new day map with the
\* rest left empty to keep the prefill, a new total alone, and a whole new
\* agent with a total that is no number
TypedFull ==
    { [name |-> "", route |-> "", dose |-> "", frequency |-> Blank,
       duration |-> TypedMap, td_raw |-> <<>>],
      [name |-> "", route |-> "", dose |-> "", frequency |-> Blank,
       duration |-> Blank, td_raw |-> <<"7">>],
      [name |-> "Cytarabine", route |-> "IV", dose |-> "100 mg/m2", frequency |-> FreeText,
       duration |-> TypedMap, td_raw |-> <<"x">>] }

\* the banks a session starts on, written through the same menus
SeedBanks ==
    LET one == upsert_regimen(EmptyDb,
                   BankRegimen("7+3", Some("AML"), None, <<Azacitidine, Venetoclax>>))
    IN  { EmptyDb, one,
          upsert_regimen(one, BankRegimen("AZA/VEN", None, Some("inpatient"), <<Venetoclax>>)) }

\* names typed at "Enter new regimen name" and "New regimen name"
TypedNames == {"", " 7+3 ", "7+3+ven"}

InitCli ==
    /\ EarlyIdle
    /\ JsonIdle
    /\ db \in SeedBanks
    /\ out = NotCalled
    /\ heap = <<>>
    /\ cli = NotCalled

\* caller, pc: the function that runs and the prompt it waits at
\* base, target: the addresses of prep_editor's base and of the regimen under edit
\* typed: the last input; save: the answer to "Save ...? [y/N]", if asked
\* db0, heap0: the bank at the start and the heap when base was made
\* td_typed: something was typed at a "Total doses" prompt of _edit_agent
Session(caller, pc, b, target) ==
    [called |-> TRUE, caller |-> caller, pc |-> pc, base |-> b, target |-> target,
     changed |-> FALSE, edits |-> 0, after |-> "done", exists |-> FALSE, new_name |-> "",
     typed |-> [prompt |-> "", text |-> ""], save |-> None, db0 |-> db, heap0 |-> <<>>,
     td_typed |-> FALSE]

At(pcs) == IF cli = NotCalled THEN FALSE ELSE cli.pc \in pcs

\* wizard up to its menu: pick a stored regimen or name a new one, then the
\* two _opt prompts, which write into the regimen object
OpenWizard ==
    /\ cli = NotCalled
    /\ \E is_new \in BOOLEAN, picked \in Range(list_regimens(db)), val \in TypedNames,
          ds \in {"", "ALL"}, nt \in {""} :
          LET rname == IF is_new THEN strip(val) ELSE picked
              got == IF is_new THEN None ELSE get_regimen(db, rname)
              r == IF got = None THEN BankRegimen(rname, None, None, <<>>) ELSE got[1]
              r2 == [r EXCEPT !.disease_state = IF ds = "" THEN r.disease_state ELSE Some(ds),
                              !.notes = IF nt = "" THEN r.notes ELSE Some(nt)]
          IN  /\ rname # ""
              /\ heap' = NewRegimen(heap, r2)
              /\ cli' = Session("wizard", "wizard_loop", 0, Len(heap'))
    /\ UNCHANGED <<earlyVars, jsonVars, bankVars>>

\* calendar_flow up to the first prompt of prep_editor: base is read from
\* the bank and prep_editor makes its working copy
OpenPrep ==
    /\ cli = NotCalled
    /\ \E rname \in Range(list_regimens(db)) :
          /\ get_regimen(db, rname) # None
          /\ LET h1 == NewRegimen(heap, get_regimen(db, rname)[1])
             IN  /\ heap' = CopyRegimen(h1, Len(h1))
                 /\ cli' = [Session("prep", "prep_top", Len(h1), Len(heap')) EXCEPT !.heap0 = h1]
    /\ UNCHANGED <<earlyVars, jsonVars, bankVars>>

\* "Press Enter to continue with this calendar copy, or type 'e' to edit"
PrepChoice ==
    /\ At({"prep_top"})
    /\ \E choice \in {"", "e", "1", "q"} :
          cli' = [cli EXCEPT !.pc = IF choice = "" THEN "done"
                                    ELSE IF choice \in {"e", "1"} THEN "prep_edit"
                                    ELSE "prep_top",
                             !.typed = [prompt |-> "choice", text |-> choice]]
    /\ UNCHANGED <<earlyVars, jsonVars, bankVars, heap>>

Editing == At({"wizard_loop", "prep_edit"}) /\ cli.edits < MaxEdits

AfterEdit(h, td_raw) ==
    /\ heap' = h
    /\ cli' = [cli EXCEPT !.edits = @ + 1, !.changed = (cli.caller = "prep"),
                          !.td_typed = @ \/ td_raw # <<>>]

ItemsOf(h, a) == h[h[a].therapies].items

\* "Add new": upsert_chemo(Chemotherapy("", ...)); therapies[-1] = _edit_agent(therapies[-1])
CliAddNew ==
    /\ Editing
    /\ \E typed \in TypedFull :
          LET h1 == Append(heap, [type |-> "Chemotherapy",
                                  v |-> BankChemotherapy("", "", "", Blank, Blank, None)])
              h2 == ListUpsert(h1, cli.target, Len(h1))
              n == Len(ItemsOf(h2, cli.target))
              tail == h2[ItemsOf(h2, cli.target)[n]].v
              h3 == Append(h2, [type |-> "Chemotherapy", v |-> edit_agent_full(tail, typed)])
          IN  /\ n <= MaxEditLen
              /\ AnswersFull(tail, typed)
              /\ AfterEdit([h3 EXCEPT ![h3[cli.target].therapies].items[n] = Len(h3)],
                           typed.td_raw)
    /\ UNCHANGED <<earlyVars, jsonVars, bankVars>>

\* "Add from existing library / catalog": upsert_chemo(_edit_agent(tmpl))
CliAddFromCatalog ==
    /\ Editing
    /\ \E tmpl \in build_agent_catalog(db), typed \in TypedFull :
          LET h1 == Append(heap, [type |-> "Chemotherapy", v |-> edit_agent_full(tmpl, typed)])
              h2 == ListUpsert(h1, cli.target, Len(h1))
          IN  /\ Len(ItemsOf(h2, cli.target)) <= MaxEditLen
              /\ AfterEdit(h2, typed.td_raw)
    /\ UNCHANGED <<earlyVars, jsonVars, bankVars>>

\* "Edit": therapies[k - 1] = _edit_agent(therapies[k - 1])
CliEditAgent ==
    /\ Editing
    /\ \E k \in 1..Len(ItemsOf(heap, cli.target)), typed \in TypedFull :
          LET h1 == Append(heap, [type |-> "Chemotherapy",
                                  v |-> edit_agent_full(heap[ItemsOf(heap, cli.target)[k]].v, typed)])
          IN  AfterEdit([h1 EXCEPT ![h1[cli.target].therapies].items[k] = Len(h1)],
                        typed.td_raw)
    /\ UNCHANGED <<earlyVars, jsonVars, bankVars>>

\* "Remove agent": therapies.pop(k - 1)
CliRemoveAgent ==
    /\ Editing
    /\ \E k \in 1..Len(ItemsOf(heap, cli.target)) :
          AfterEdit([heap EXCEPT ![heap[cli.target].therapies].items = pop(@, k)], <<>>)
    /\ UNCHANGED <<earlyVars, jsonVars, bankVars>>

\* _persist_menu(bank, reg) up to its first prompt
OpenMenu(after) ==
    [cli EXCEPT !.pc = "menu_select", !.after = after,
                !.exists = get_regimen(db, heap[cli.target].name) # None]

\* wizard: "5) Persist", and "6) Finish" with its "Save before finishing? [y/N]"
WizardPersist ==
    /\ At({"wizard_loop"})
    /\ \E ch \in {"5", "6"}, ans \in {"y", "Y", ""} :
          /\ ch = "5" => cli.edits < MaxEdits
          /\ cli' =
                 IF ch = "5" THEN [OpenMenu("wizard_loop") EXCEPT
                                      !.edits = @ + 1,
                                      !.typed = [prompt |-> "action", text |-> ch]]
                 ELSE IF NameKey(ans) = <<"y">>
                      THEN [OpenMenu("done") EXCEPT !.save = Some(ans),
                                                    !.typed = [prompt |-> "save", text |-> ans]]
                      ELSE [cli EXCEPT !.pc = "done", !.save = Some(ans),
                                       !.typed = [prompt |-> "save", text |-> ans]]
    /\ UNCHANGED <<earlyVars, jsonVars, bankVars, heap>>

\* prep_editor: "Done editing", then "Save these edits back ...? [y/N]" if changed
PrepDone ==
    /\ At({"prep_edit"})
    /\ \E ans \in {"y", "Y", ""} :
          cli' = IF ~cli.changed THEN [cli EXCEPT !.pc = "done"]
                 ELSE IF NameKey(ans) = <<"y">>
                      THEN [OpenMenu("done") EXCEPT !.save = Some(ans),
                                                    !.typed = [prompt |-> "save", text |-> ans]]
                      ELSE [cli EXCEPT !.pc = "done", !.save = Some(ans),
                                       !.typed = [prompt |-> "save", text |-> ans]]
    /\ UNCHANGED <<earlyVars, jsonVars, bankVars, heap>>

Write(op, r) ==
    /\ db' = upsert_regimen(db, r)
    /\ out' = Call(op, r, db, None)

\* "Select [1-3]"
MenuSelect ==
    /\ At({"menu_select"})
    /\ \E sel \in {"1", "2", "3", "4"} :
          LET typed == [prompt |-> "select", text |-> sel]
          IN  IF sel = "2" /\ ~cli.exists
              THEN /\ Write("upsert_regimen", Deref(heap, cli.target))
                   /\ cli' = [cli EXCEPT !.pc = cli.after, !.typed = typed]
              ELSE /\ cli' = [cli EXCEPT !.typed = typed,
                                         !.pc = IF sel = "1" THEN "menu_new_name"
                                                ELSE IF sel = "2" THEN "menu_confirm_save"
                                                ELSE IF sel = "3" THEN cli.after
                                                ELSE "menu_select"]
                   /\ UNCHANGED bankVars
    /\ UNCHANGED <<earlyVars, jsonVars, heap>>

\* "New regimen name"
MenuNewName ==
    /\ At({"menu_new_name"})
    /\ \E val \in TypedNames :
          LET new_name == strip(val)
              typed == [prompt |-> "new_name", text |-> val]
          IN  IF new_name # "" /\ get_regimen(db, new_name) = None
              THEN /\ Write("save_as", [Deref(heap, cli.target) EXCEPT !.name = new_name])
                   /\ cli' = [cli EXCEPT !.pc = cli.after, !.typed = typed, !.new_name = new_name]
              ELSE /\ cli' = [cli EXCEPT !.typed = typed, !.new_name = new_name,
                                         !.pc = IF new_name = "" THEN "menu_new_name"
                                                ELSE "menu_confirm_save_as"]
                   /\ UNCHANGED bankVars
    /\ UNCHANGED <<earlyVars, jsonVars, heap>>

\* mutant: the answer is not looked at
confirmed_Any(answer) == TRUE

\* confirm = input(...).strip().lower(); confirm == "yes"
confirmed(answer) == NameKey(answer) = <<"y", "e", "s">>

\* "Overwrite it? Type 'yes' to confirm, or anything else to cancel" and
\* "Type 'yes' to overwrite, or anything else to cancel"
MenuConfirm ==
    /\ At({"menu_confirm_save_as", "menu_confirm_save"})
    /\ \E answer \in {"yes", " YES ", "y", ""} :
          LET typed == [prompt |-> "overwrite", text |-> answer]
              r == IF cli.pc = "menu_confirm_save" THEN Deref(heap, cli.target)
                   ELSE [Deref(heap, cli.target) EXCEPT !.name = cli.new_name]
          IN  IF confirmed(answer)
              THEN /\ Write(IF cli.pc = "menu_confirm_save" THEN "upsert_regimen" ELSE "save_as", r)
                   /\ cli' = [cli EXCEPT !.pc = cli.after, !.typed = typed]
              ELSE /\ cli' = [cli EXCEPT !.typed = typed,
                                         !.pc = IF cli.pc = "menu_confirm_save" THEN "menu_select"
                                                ELSE "menu_new_name"]
                   /\ UNCHANGED bankVars
    /\ UNCHANGED <<earlyVars, jsonVars, heap>>

NextCli ==
    \/ OpenWizard \/ OpenPrep \/ PrepChoice
    \/ CliAddNew \/ CliAddFromCatalog \/ CliEditAgent \/ CliRemoveAgent
    \/ WizardPersist \/ PrepDone
    \/ MenuSelect \/ MenuNewName \/ MenuConfirm

SpecCli == InitCli /\ [][NextCli]_vars

\* ---------------------------------------------------------------- the JSON bank and its save
\* The JSON-era scripts keep the whole bank in one file.  A file is the
\* sequence of pieces json.dump has written to it so far; a save runs one
\* system call per action, so that a reader or a kill can come in between.
\* Only the database file and the temporary file of the save are kept;
\* temporary files left behind by a killed process are counted.
MaxCrashes == 1

JsonRegimen(n, ds, ch) == [name |-> n, disease_state |-> ds, chemotherapy |-> ch]

\* the keys in the order json.dump writes them
KeyOrder == <<"7+3", "AZA/VEN">>

\* json.dump(data, tmp): the opening brace, one piece per regimen, the closing brace
dump(data) ==
    LET InData(k) == k \in DOMAIN data
        keys == SelectSeq(KeyOrder, InData)
    IN  <<[t |-> "{"]>>
        \o [i \in 1..Len(keys) |-> [t |-> "entry", key |-> keys[i], rec |-> data[keys[i]]]]
        \o <<[t |-> "}"]>>

\* json.load(f): the dictionary, or JSONDecodeError on a text that is cut short
json_load(pieces) ==
    IF Len(pieces) >= 2 /\ pieces[1].t = "{" /\ pieces[Len(pieces)].t = "}"
    THEN Some([k \in { pieces[i].key : i \in 2..(Len(pieces) - 1) } |->
                   (CHOOSE e \in Range(pieces) : e.t = "entry" /\ e.key = k).rec])
    ELSE None

\* RegimenBank.load of regimen1.py on what the database file holds
load(file) ==
    IF file = None \/ file = Some(<<>>) THEN [ok |-> TRUE, data |-> <<>>]
    ELSE IF json_load(file[1]) = None THEN [ok |-> FALSE, data |-> <<>>]
    ELSE [ok |-> TRUE, data |-> json_load(file[1])[1]]

\* self._db[key] = rec
SetKey(data, key, rec) ==
    [k \in DOMAIN data \cup {key} |-> IF k = key THEN rec ELSE data[k]]

\* del self._db[key]
DelKey(data, key) == [k \in DOMAIN data \ {key} |-> data[k]]

\* Regimen.from_dict(d) of regimen1.py
from_dict(d) ==
    JsonRegimen(strip(d.name),
                IF d.disease_state \in {None, Some("")} THEN None ELSE d.disease_state,
                d.chemotherapy)

\* if disease_state is not None: rec.disease_state = disease_state or None
new_disease_state(rec, disease_state) ==
    IF disease_state # None
    THEN IF disease_state = Some("") THEN None ELSE disease_state
    ELSE rec.disease_state

\* update_regimen(name, disease_state=, chemotherapy=, append_chemo=): the
\* dictionary afterwards, or KeyError
update_regimen(data, name, disease_state, chemotherapy, append_chemo) ==
    LET key == strip(name)
    IN  IF key \notin DOMAIN data THEN [raised |-> "KeyError", data |-> data]
        ELSE LET rec == from_dict(data[key])
                 ch1 == IF chemotherapy # None THEN chemotherapy[1] ELSE rec.chemotherapy
                 ch2 == IF append_chemo # None /\ append_chemo # Some(<<>>)
                        THEN ch1 \o append_chemo[1] ELSE ch1
             IN  [raised |-> "",
                  data |-> SetKey(data, key,
                               JsonRegimen(rec.name, new_disease_state(rec, disease_state), ch2))]

\* add_regimen(regimen, overwrite)
add_regimen(data, regimen, overwrite) ==
    LET key == strip(regimen.name)
    IN  IF key = "" THEN [raised |-> "ValueError", data |-> data]
        ELSE IF key \in DOMAIN data /\ ~overwrite THEN [raised |-> "KeyError", data |-> data]
        ELSE [raised |-> "", data |-> SetKey(data, key, regimen)]

\* regimen1.get_regimen(name)
json_get_regimen(data, name) ==
    IF strip(name) \in DOMAIN data THEN Some(from_dict(data[strip(name)])) ELSE None

\* the chemotherapy= and append_chemo= arguments of update_regimen
ChemoArgs ==
    { <<None, None>>, <<Some(<<"Daunorubicin">>), None>>, <<None, Some(<<"Venetoclax">>)>> }

InitJson ==
    /\ EarlyIdle
    /\ BankIdle
    /\ CliIdle
    /\ JsonIdle

\* no save is under way in the running process
Ready == IF saving = NotCalled THEN TRUE ELSE saving.pc = "idle"

\* save(): _atomic_write of regimen1.py syncs the file, _save of pythonbank.py does not
StartSave(data) ==
    \E fsync \in BOOLEAN :
        saving' = [called |-> TRUE, pc |-> "open", data |-> data, old |-> disk.db,
                   fsync |-> fsync]

Done(op, args, res) ==
    /\ upd' = [called |-> TRUE, op |-> op, args |-> args, before |-> mem, raised |-> res.raised]
    /\ mem' = res.data
    /\ IF res.raised = "" THEN StartSave(res.data) ELSE UNCHANGED saving
    /\ seen' = NotCalled
    /\ UNCHANGED disk

\* add_regimen(regimen, overwrite)
AddRegimen ==
    /\ Ready
    /\ \E n \in {"7+3"}, ds \in {None, Some("AML")}, overwrite \in BOOLEAN :
          Done("add_regimen", <<n, ds, overwrite>>,
               add_regimen(mem, JsonRegimen(n, ds, <<"Cytarabine">>), overwrite))
    /\ UNCHANGED <<earlyVars, bankVars, cliVars>>

\* update_regimen(name, ...) of regimen1.py
JsonUpdateRegimen ==
    /\ Ready
    /\ \E n \in {" 7+3 ", "AZA/VEN"}, ds \in {None, Some(""), Some("ALL")}, c \in ChemoArgs :
          /\ \A k \in DOMAIN update_regimen(mem, n, ds, c[1], c[2]).data :
                Len(update_regimen(mem, n, ds, c[1], c[2]).data[k].chemotherapy) <= MaxTherapies
          /\ Done("update_regimen", <<n, ds, c[1], c[2]>>,
                  update_regimen(mem, n, ds, c[1], c[2]))
    /\ UNCHANGED <<earlyVars, bankVars, cliVars>>

\* delete_regimen(name) of regimen1.py
JsonDeleteRegimen ==
    /\ Ready
    /\ \E n \in {" 7+3 "} :
          IF strip(n) \in DOMAIN mem
          THEN Done("delete_regimen", <<n>>, [raised |-> "", data |-> DelKey(mem, strip(n))])
          ELSE /\ upd' = [called |-> TRUE, op |-> "delete_regimen", args |-> <<n>>,
                          before |-> mem, raised |-> ""]
               /\ seen' = NotCalled
               /\ UNCHANGED <<mem, disk, saving>>
    /\ UNCHANGED <<earlyVars, bankVars, cliVars>>

Saving(pcs) == IF saving = NotCalled THEN FALSE ELSE saving.pc \in pcs

\* mutant: open(self.path, "w"), the database file itself is truncated
SaveOpen_InPlace == [db |-> Some(<<>>), tmp |-> None, litter |-> disk.litter]

\* tempfile.NamedTemporaryFile("w", delete=False, dir=...): a new empty file
\* next to the database file
SaveOpen == [disk EXCEPT !.tmp = Some(<<>>)]

\* the file json.dump writes into
Target == IF disk.tmp = None THEN "db" ELSE "tmp"

OpenTemp ==
    /\ Saving({"open"})
    /\ disk' = SaveOpen
    /\ saving' = [saving EXCEPT !.pc = "dump"]
    /\ UNCHANGED <<earlyVars, bankVars, cliVars, mem, seen, upd>>

\* one more piece of json.dump(data, tmp) reaches the file (tmp.flush() at the end)
DumpPiece ==
    /\ Saving({"dump"})
    /\ LET n == Len(disk[Target][1]) + 1
       IN  /\ disk' = [disk EXCEPT ![Target] = Some(Append(disk[Target][1], dump(saving.data)[n]))]
           /\ saving' = [saving EXCEPT !.pc = IF n < Len(dump(saving.data)) THEN "dump"
                                              ELSE IF saving.fsync THEN "fsync" ELSE "replace"]
    /\ UNCHANGED <<earlyVars, bankVars, cliVars, mem, seen, upd>>

\* os.fsync(tmp.fileno())
Fsync ==
    /\ Saving({"fsync"})
    /\ saving' = [saving EXCEPT !.pc = "replace"]
    /\ UNCHANGED <<earlyVars, bankVars, cliVars, mem, disk, seen, upd>>

\* the file is closed; os.replace(tmp_name, self.path)
Replace ==
    /\ Saving({"replace"})
    /\ disk' = IF disk.tmp = None THEN disk ELSE [disk EXCEPT !.db = disk.tmp, !.tmp = None]
    /\ saving' = [saving EXCEPT !.pc = "idle"]
    /\ UNCHANGED <<earlyVars, bankVars, cliVars, mem, seen, upd>>

\* the process is killed, or the write raises, and the call never returns;
\* its temporary file stays behind
Kill ==
    /\ Saving({"open", "dump", "fsync", "replace"})
    /\ disk.litter < MaxCrashes
    /\ disk' = [disk EXCEPT !.tmp = None, !.litter = IF disk.tmp = None THEN @ ELSE @ + 1]
    /\ saving' = [saving EXCEPT !.pc = "dead"]
    /\ upd' = NotCalled
    /\ UNCHANGED <<earlyVars, bankVars, cliVars, mem, seen>>

\* RegimenBank(path): a process reads the database file, at any moment; it
\* takes the place of a killed one
Load ==
    /\ seen' = [called |-> TRUE, file |-> disk.db, ok |-> load(disk.db).ok,
                during |-> IF saving = NotCalled THEN "idle" ELSE saving.pc]
    /\ IF Saving({"dead"}) /\ load(disk.db).ok
       THEN mem' = load(disk.db).data /\ saving' = [saving EXCEPT !.pc = "idle"]
       ELSE UNCHANGED <<mem, saving>>
    /\ UNCHANGED <<earlyVars, bankVars, cliVars, disk, upd>>

NextJson ==
    \/ AddRegimen \/ JsonUpdateRegimen \/ JsonDeleteRegimen
    \/ OpenTemp \/ DumpPiece \/ Fsync \/ Replace \/ Kill \/ Load

SpecJson == InitJson /\ [][NextJson]_vars

\* ---------------------------------------------------------------- the Regimen Builder page
\* Streamlit runs page_builder from top to bottom once for every interaction;
\* only the values of the widgets live on between two runs.  A run that
\* raises stops there: the widgets below that line are not drawn.

\* the therapy submitted with the therapy form
FormTherapy == BankChemotherapy("Cytarabine", "IV", "100 mg/m2", FreeText, TypedMap, None)

\* names typed into "Regimen name" and "Save as new regimen name"
PageNames == {"", "7+3+ven"}

\* base = bank.get_regimen(selected_name) and the prefills made from it;
\* base.on_study raises if regimenbank.Regimen has no such field
Prefill(d, sel, has_on_study) ==
    LET base == IF sel = None THEN None ELSE get_regimen(d, sel[1])
    IN  [raised |-> IF base # None /\ ~has_on_study THEN "AttributeError" ELSE "",
         reg_name |-> IF base = None THEN "" ELSE base[1].name,
         disease_state |-> IF base = None THEN None ELSE base[1].disease_state,
         notes |-> IF base = None THEN None ELSE base[1].notes,
         therapies |-> IF base = None THEN <<>> ELSE base[1].therapies]

\* what a run that got through draws: the therapy form and the remove box only
\* with the editor open
Drawn(is_open, therapies) ==
    {"select", "save", "save_as", "toggle"}
        \cup (IF is_open THEN {"form"} ELSE {})
        \cup (IF is_open /\ therapies # <<>> THEN {"remove"} ELSE {})

\* a run of page_builder:
\*   on_study: whether regimenbank.Regimen has the field on_study that app.py
\*     reads and passes (the class in regimenbank.py has none)
\*   selected: the value of "Existing regimens"; open: edit_therapies_open
\*   event: the interaction that started the run; raised: the exception that
\*     ended it; message: what st.success or st.error said
\*   therapies: the local list when the run ended
\*   applied: the therapy "Apply therapy" put into the list, until the page
\*     is used for something other than saving
\*   written: the name "Save" stored the regimen under in this run
\*   drawn: the widgets the run has drawn
PageRun(has_on_study, sel, is_open, event, raised, message, therapies, applied, written, drawn) ==
    [called |-> TRUE, on_study |-> has_on_study, selected |-> sel, open |-> is_open,
     event |-> event, raised |-> raised, message |-> message, therapies |-> therapies,
     applied |-> applied, written |-> written, drawn |-> drawn]

\* a run stopped by base.on_study; only a run that changes the selection can be
Stopped(sel, is_open, event, applied) ==
    PageRun(page.on_study, sel, is_open, event, "AttributeError", "", <<>>, applied, None,
            {"select"})

\* a run that got to its end
Through(sel, is_open, event, message, therapies, applied, written) ==
    PageRun(page.on_study, sel, is_open, event, "", message, therapies, applied, written,
            Drawn(is_open, therapies))

\* the page is opened on a bank that holds regimens or none; nothing is selected
InitPage ==
    /\ EngineIdle
    /\ CliIdle
    /\ JsonIdle
    /\ db \in SeedBanks
    /\ out = NotCalled
    /\ \E has_on_study \in BOOLEAN :
          page = PageRun(has_on_study, None, FALSE, "open", "", "", <<>>, None, None,
                         Drawn(FALSE, <<>>))

Can(widget) == IF page = NotCalled THEN FALSE ELSE widget \in page.drawn

\* another entry of "Existing regimens" is chosen
PageSelect ==
    /\ Can("select")
    /\ \E sel \in {None} \cup { Some(n) : n \in Range(list_regimens(db)) } :
          LET pre == Prefill(db, sel, page.on_study)
          IN  /\ sel # page.selected
              /\ page' = IF pre.raised # "" THEN Stopped(sel, page.open, "select", None)
                         ELSE Through(sel, page.open, "select", "", pre.therapies, None, None)
    /\ UNCHANGED <<engineVars, cliVars, jsonVars, bankVars>>

\* Regimen(name=..., on_study=on_study_val, ..., therapies=therapies) and
\* bank.upsert_regimen(reg); the details are left as prefilled
PageWrite(name, pre, event) ==
    LET r == BankRegimen(strip(name), pre.disease_state, pre.notes, pre.therapies)
    IN  IF strip(name) = ""
        THEN /\ page' = Through(page.selected, page.open, event, "name is required",
                                pre.therapies, page.applied, None)
             /\ UNCHANGED bankVars
        ELSE IF ~page.on_study
        THEN /\ page' = PageRun(page.on_study, page.selected, page.open, event, "TypeError",
                                "", pre.therapies, page.applied, None,
                                IF event = "save" THEN {"select", "save"}
                                ELSE {"select", "save", "save_as"})
             /\ UNCHANGED bankVars
        ELSE /\ IdsLeft(db, r)
             /\ db' = upsert_regimen(db, r)
             /\ out' = Call("upsert_regimen", r, db, None)
             /\ page' = Through(page.selected, page.open, event, "Saved",
                                Prefill(db', page.selected, page.on_study).therapies,
                                page.applied, Some(r.name))

\* "Save regimen": the run starts over from the bank, then the button is handled
PageSave ==
    /\ Can("save")
    /\ LET pre == Prefill(db, page.selected, page.on_study)
       IN  \E name \in {pre.reg_name} \cup PageNames : PageWrite(name, pre, "save")
    /\ UNCHANGED <<engineVars, cliVars, jsonVars>>

\* "Save as new regimen", followed by st.rerun()
PageSaveAs ==
    /\ Can("save_as")
    /\ LET pre == Prefill(db, page.selected, page.on_study)
       IN  \E new_name \in PageNames : PageWrite(new_name, pre, "save_as")
    /\ UNCHANGED <<engineVars, cliVars, jsonVars>>

\* "Edit therapies" shows or hides the therapy editor
PageToggle ==
    /\ Can("toggle")
    /\ LET pre == Prefill(db, page.selected, page.on_study)
       IN  page' = Through(page.selected, ~page.open, "toggle", "", pre.therapies, None, None)
    /\ UNCHANGED <<engineVars, cliVars, jsonVars, bankVars>>

\* "Apply therapy": therapies[idx] = new_t in edit mode, else therapies.append(new_t)
PageApply ==
    /\ Can("form")
    /\ LET pre == Prefill(db, page.selected, page.on_study)
       IN  \E edit_mode \in BOOLEAN, idx \in 1..Max(1, Len(pre.therapies)) :
              LET edits == edit_mode /\ pre.therapies # <<>>
                  therapies == IF edits THEN [pre.therapies EXCEPT ![idx] = FormTherapy]
                               ELSE Append(pre.therapies, FormTherapy)
              IN  /\ ~edits => idx = 1
                  /\ page' = Through(page.selected, page.open, "apply",
                                     "Therapy updated in this session.", therapies,
                                     Some(FormTherapy), None)
    /\ UNCHANGED <<engineVars, cliVars, jsonVars, bankVars>>

\* "Remove selected therapy": therapies.pop(idx_to_remove)
PageRemove ==
    /\ Can("remove")
    /\ LET pre == Prefill(db, page.selected, page.on_study)
       IN  \E idx \in 1..Len(pre.therapies) :
              page' = Through(page.selected, page.open, "remove", "Removed",
                              pop(pre.therapies, idx), None, None)
    /\ UNCHANGED <<engineVars, cliVars, jsonVars, bankVars>>

NextPage ==
    \/ PageSelect \/ PageSave \/ PageSaveAs \/ PageToggle \/ PageApply \/ PageRemove

SpecPage == InitPage /\ [][NextPage]_vars

\* ---------------------------------------------------------------- properties
Called(x) == x # NotCalled

\* ordinal 1 (0001-01-01) is a Monday
IsSunday(d) == d % 7 = 0
IsSaturday(d) == d % 7 = 6

\* every cell of a grid, as (week, column) positions
Positions(grid) == { <<w, c>> : w \in DOMAIN grid, c \in 1..7 }
CellAt(grid, p) == grid[p[1]][p[2]]
HasCycleDay(cell) == cell.cycle_day # None
CycleDayOf(cell) == cell.cycle_day[1]

\* the last date of the dosing window
LastNeeded == start + (ret.max_day - 1)

\* C1: firstSunday is a Sunday within the six days up to start (start itself when
\* start is a Sunday), lastSaturday is a Saturday within the six days from the
\* last needed date L = start + (maxDay - 1), and the span is whole weeks.
C1_WeekAlignedBounds ==
    Called(ret) =>
        /\ IsSunday(ret.first_sun)
        /\ start - 6 <= ret.first_sun /\ ret.first_sun <= start
        /\ (IsSunday(start) => ret.first_sun = start)
        /\ IsSaturday(ret.last_sat)
        /\ LastNeeded <= ret.last_sat /\ ret.last_sat <= LastNeeded + 6
        /\ ((ret.last_sat - ret.first_sun) + 1) % 7 = 0

C1_Witness ==
    /\ Called(ret)
    /\ ret.first_sun = start - 3
    /\ ret.last_sat > LastNeeded

\* C2: a cell has a cycle day exactly when its date lies in
\* [start, start + maxDay - 1]; then date = start + (cycleDay - 1) and
\* 1 <= cycleDay <= maxDay.
C2_CycleDayWindow ==
    Called(ret) =>
        \A p \in Positions(ret.grid) :
            LET cell == CellAt(ret.grid, p)
            IN  /\ HasCycleDay(cell) <=> (start <= cell.date /\ cell.date <= LastNeeded)
                /\ HasCycleDay(cell) =>
                      /\ cell.date = start + (CycleDayOf(cell) - 1)
                      /\ 1 <= CycleDayOf(cell) /\ CycleDayOf(cell) <= ret.max_day

C2_Witness ==
    /\ Called(ret)
    /\ \E p \in Positions(ret.grid) : CellAt(ret.grid, p).date < start
    /\ \E p \in Positions(ret.grid) : CellAt(ret.grid, p).date > LastNeeded
    /\ \E p \in Positions(ret.grid) :
          /\ HasCycleDay(CellAt(ret.grid, p))
          /\ CycleDayOf(CellAt(ret.grid, p)) = ret.max_day
          /\ ret.max_day > 1

\* the names of the therapies whose parsed day set contains cd, in list order
RECURSIVE NamesDosingOn(_, _)
NamesDosingOn(therapies, cd) ==
    IF therapies = <<>> THEN <<>>
    ELSE ( IF cd \in Range(parse_day_spec(Head(therapies).duration))
           THEN <<Head(therapies).name>> ELSE <<>> )
         \o NamesDosingOn(Tail(therapies), cd)

\* C3: the labels of an in-window cell are the names of the therapies dosing on
\* its cycle day, in regimen order, or the single label "Rest" when none does.
C3_LabelsInRegimenOrder ==
    Called(ret) =>
        \A p \in Positions(ret.grid) :
            LET cell == CellAt(ret.grid, p)
                dosing == NamesDosingOn(reg.therapies, CycleDayOf(cell))
            IN  HasCycleDay(cell) =>
                    cell.labels = IF dosing = <<>> THEN <<"Rest">> ELSE dosing

C3_Witness ==
    /\ Called(ret)
    /\ Len(reg.therapies) = 2
    /\ reg.therapies[1].name = "Aza"
    /\ reg.therapies[2].name = "Ven"
    /\ \E p \in Positions(ret.grid) : CellAt(ret.grid, p).labels = <<"Aza", "Ven">>
    /\ \E p \in Positions(ret.grid) : CellAt(ret.grid, p).labels = <<"Ven">>
    /\ \E p \in Positions(ret.grid) : CellAt(ret.grid, p).labels = <<"Rest">>

\* the largest offset any therapy's day map lists (0 when none lists any)
LargestParsedOffset(therapies) ==
    SetMax({0} \cup UNION { Range(parse_day_spec(therapies[i].duration)) : i \in DOMAIN therapies })

\* C4: maxDay is the requested cycle length, extended to the largest parsed
\* offset when a therapy's day map lists an offset beyond the cycle length.
C4_MaxDayExtended ==
    Called(ret) => ret.max_day = Max(cycle_len, LargestParsedOffset(reg.therapies))

\* the cells of the legacy calendar and the lines they show
LegacyPositions == { <<w, c>> : w \in DOMAIN legacy.weeks, c \in 1..7 }
LegacyCell(p) == legacy.weeks[p[1]][p[2]]
ShowsCycleDay(lines) == Len(lines) >= 2 /\ lines[2].kind = "day"

\* C5: no therapy name is attached to a cycle day beyond the requested cycle
\* length: by_day (day_labels in the legacy calendar) holds names only for the
\* offsets 1..cycle_len, and a displayed cycle day d with cycle_len < d <= maxDay
\* shows only "Rest".
C5_NoLabelBeyondCycleLength ==
    /\ Called(locals) =>
          /\ \A d \in DOMAIN locals.by_day : locals.by_day[d] # <<>> => d \in 1..cycle_len
          /\ \A p \in Positions(ret.grid) :
                LET cell == CellAt(ret.grid, p)
                IN  (HasCycleDay(cell) /\ CycleDayOf(cell) > cycle_len) => cell.labels = <<"Rest">>
    /\ Called(legacy) =>
          /\ \A d \in DOMAIN legacy.day_labels :
                legacy.day_labels[d] # <<>> => d \in 1..cycle_len
          /\ \A p \in LegacyPositions :
                LET lines == LegacyCell(p)
                IN  (ShowsCycleDay(lines) /\ lines[2].n > cycle_len) =>
                        SubSeq(lines, 3, Len(lines)) = <<TextLine("Rest")>>

\* a therapy lists a day beyond the cycle length, the day is displayed, with "Rest"
C5_Witness ==
    /\ Called(legacy)
    /\ legacy.max_day > cycle_len
    /\ \E i \in DOMAIN reg.therapies :
          legacy.max_day \in Range(parse_frequency_days(reg.therapies[i].frequency))
    /\ \E p \in LegacyPositions :
          LegacyCell(p) = <<DateLine(start + (legacy.max_day - 1)), DayLine(legacy.max_day), TextLine("Rest")>>

\* C6: a cell's labels are empty exactly when it has no cycle day.
C6_LabelsEmptyIffNoCycleDay ==
    Called(ret) =>
        \A p \in Positions(ret.grid) :
            (CellAt(ret.grid, p).labels = <<>>) <=> ~HasCycleDay(CellAt(ret.grid, p))

C6_Witness ==
    /\ Called(ret)
    /\ \E p \in Positions(ret.grid) :
          ~HasCycleDay(CellAt(ret.grid, p)) /\ CellAt(ret.grid, p).labels = <<>>
    /\ \E p \in Positions(ret.grid) :
          HasCycleDay(CellAt(ret.grid, p)) /\ CellAt(ret.grid, p).labels = <<"Rest">>
    /\ \E p \in Positions(ret.grid) :
          HasCycleDay(CellAt(ret.grid, p)) /\ CellAt(ret.grid, p).labels = <<"Ven", "Aza">>

\* C7: every week row has 7 cells, the cell dates run day by day from
\* firstSunday to lastSaturday, every row starts on a Sunday and ends on a
\* Saturday, and the walk ends with no partial week to pad.
C7_FullConsecutiveWeeks ==
    Called(ret) =>
        /\ \A w \in DOMAIN ret.grid : Len(ret.grid[w]) = 7
        /\ \A w \in DOMAIN ret.grid : \A c \in 1..Len(ret.grid[w]) :
              ret.grid[w][c].date = ret.first_sun + (7 * (w - 1) + (c - 1))
        /\ Len(ret.grid) >= 1
        /\ ret.grid[Len(ret.grid)][Len(ret.grid[Len(ret.grid)])].date = ret.last_sat
        /\ \A w \in DOMAIN ret.grid :
              IsSunday(ret.grid[w][1].date) /\ IsSaturday(ret.grid[w][Len(ret.grid[w])].date)
        /\ locals.at_exit.week = <<>>

C7_Witness ==
    /\ Called(ret)
    /\ Len(ret.grid) = 3
    /\ ret.grid[1][7].date + 1 = ret.grid[2][1].date
    /\ \A c \in 1..7 : HasCycleDay(ret.grid[2][c])
    /\ locals.at_exit.week = <<>>
    /\ locals.at_exit.d = ret.last_sat + 1

\* C8: maxDay is at least the requested cycle length and every cycle day
\* 1..maxDay is the cycle day of exactly one cell.
C8_EveryCycleDayOnce ==
    Called(ret) =>
        /\ ret.max_day >= cycle_len
        /\ \A cd \in 1..ret.max_day :
              Cardinality({ p \in Positions(ret.grid) :
                              CellAt(ret.grid, p).cycle_day = Some(cd) }) = 1

C8_Witness ==
    /\ Called(ret)
    /\ cycle_len >= 2
    /\ Len(ret.grid) = 2
    /\ \E p \in Positions(ret.grid) : p[1] = 1 /\ CellAt(ret.grid, p).cycle_day = Some(1)
    /\ \E p \in Positions(ret.grid) : p[1] = 2 /\ CellAt(ret.grid, p).cycle_day = Some(ret.max_day)

\* C9: with an empty therapy list maxDay is the cycle length n and every cycle
\* day 1..n is displayed and labelled exactly "Rest".
C9_EmptyRegimenAllRest ==
    (Called(ret) /\ reg.therapies = <<>>) =>
        /\ ret.max_day = cycle_len
        /\ \A cd \in 1..cycle_len : \E p \in Positions(ret.grid) :
              CellAt(ret.grid, p).cycle_day = Some(cd)
        /\ \A p \in Positions(ret.grid) :
              HasCycleDay(CellAt(ret.grid, p)) => CellAt(ret.grid, p).labels = <<"Rest">>

C9_Witness ==
    /\ Called(ret)
    /\ reg.therapies = <<>>
    /\ cycle_len >= 2
    /\ \E p \in Positions(ret.grid) :
          CellAt(ret.grid, p).cycle_day = Some(cycle_len) /\ CellAt(ret.grid, p).labels = <<"Rest">>

LeadDays == start - ret.first_sun

\* C11: the grid has ceil((k + maxDay) / 7) week rows, k in 0..6 being the days
\* from firstSunday to start; a 7-day cycle starting on a Wednesday has 2 rows
\* with 3 leading and 4 trailing cells without cycle day around days 1..7.
C11_WeekRowCount ==
    Called(ret) =>
        /\ LeadDays \in 0..6
        /\ 7 * Len(ret.grid) >= LeadDays + ret.max_day
        /\ 7 * (Len(ret.grid) - 1) < LeadDays + ret.max_day
        /\ (weekday(start) = 2 /\ cycle_len = 7) =>
              /\ Len(ret.grid) = 2
              /\ \A c \in 1..3 : ~HasCycleDay(ret.grid[1][c])
              /\ \A c \in 4..7 : ret.grid[1][c].cycle_day = Some(c - 3)
                                   /\ ret.grid[1][c].labels # <<>>
              /\ \A c \in 1..3 : ret.grid[2][c].cycle_day = Some(c + 4)
                                   /\ ret.grid[2][c].labels # <<>>
              /\ \A c \in 4..7 : ~HasCycleDay(ret.grid[2][c]) /\ ret.grid[2][c].labels = <<>>

\* a 7-day cycle from a Wednesday, days 2..5 dosed by one therapy
C11_Witness ==
    /\ Called(ret)
    /\ weekday(start) = 2
    /\ cycle_len = 7
    /\ Len(ret.grid) = 2
    /\ Len(reg.therapies) = 1
    /\ \A c \in 5..7 : ret.grid[1][c].labels = <<"Ven">>
    /\ ret.grid[2][1].labels = <<"Ven">>
    /\ ret.grid[2][3].labels = <<"Rest">>

\* ---------------------------------------------------------------- parse_day_spec claims
\* the days >= 1 a read token stands for
ExpansionOf(tok) ==
    IF tok.kind = "range" THEN { d \in tok.a..tok.b : d >= 1 }
    ELSE IF tok.kind = "int" THEN { d \in {tok.a} : d >= 1 }
    ELSE {}

ExpectedDays(toks) == UNION { ExpansionOf(toks[i]) : i \in 1..Len(toks) }

\* the days each well-formed token of the inputs is written to mean
WrittenDays(tok) ==
    CASE tok = <<"3">> -> {3}
      [] tok = <<"1", "2">> -> {12}
      [] tok = <<"2", "-", "4">> -> {2, 3, 4}
      [] tok = <<"0", "-", "2">> -> {1, 2}
      [] OTHER -> {}

StrictlyIncreasing(v) == \A i \in 1..(Len(v) - 1) : v[i] < v[i + 1]

C13_MalformedTokenIgnored ==
    (Called(parsed) /\ Called(prev) /\ prev.kind = "insert") => parsed = prev.parsed

\* no token of the text reads as an integer or as a range
NoTokenParses(t) ==
    \A i \in 1..Len(Lex(Raw(t)).toks) : Lex(Raw(t)).toks[i].kind = "bad"

C15_LabelAndDashNeutral ==
    (Called(parsed) /\ Called(prev) /\ prev.kind \in {"label", "endash"}) =>
        parsed = prev.parsed

\* ---------------------------------------------------------------- renderer claims
TheGrid == compute_calendar_grid(reg, start, cycle_len)

\* the line count of a cell: 1 without a cycle day, else 2 + number of labels
CellHeight(c) == IF HasCycleDay(c) THEN 2 + Len(c.labels) ELSE 1

WeekHeight(week) == SetMax({ CellHeight(week[i]) : i \in 1..Len(week) })

RECURSIVE LinesBefore(_, _)
LinesBefore(grid, w) ==
    IF w <= 1 THEN 0 ELSE LinesBefore(grid, w - 1) + WeekHeight(grid[w - 1]) + 1

\* the number of lines in front of the first week block
HeadLines == IF note = "" THEN 3 ELSE 4

\* line r of the block of week w in the text of make_calendar_text
BlockLineOf(grid, w, r) == txt.lines[HeadLines + LinesBefore(grid, w) + r]

BlockLine(w, r) == BlockLineOf(TheGrid.grid, w, r)

RECURSIVE RStripStr(_)
RStripStr(s) ==
    IF Len(s) > 0 /\ SubSeq(s, Len(s), Len(s)) = " "
    THEN RStripStr(SubSeq(s, 1, Len(s) - 1)) ELSE s

\* what column c of a line shows
Column(line, c) == RStripStr(SubSeq(line, (colw + 1) * (c - 1) + 1, (colw + 1) * (c - 1) + colw))

\* what the reader finds for day c of week w in the text: the non-blank
\* entries of its column, top down
TextCellOf(grid, w, c) ==
    LET h == WeekHeight(grid[w])
        col == [r \in 1..h |-> Column(BlockLineOf(grid, w, r), c)]
        n == SetMax({0} \cup { r \in 1..h : col[r] # "" })
    IN  SubSeq(col, 1, n)

TextCell(w, c) == TextCellOf(TheGrid.grid, w, c)

TextsOf(items) == [i \in 1..Len(items) |-> items[i].text]

AllRendered == Called(txt) /\ Called(docx) /\ docx.ok /\ Called(html)

\* (ordinal 739252 is 2025-01-01, 739256 is 2025-01-05, 739282 is 2025-01-31)
\* C16: for every cell of the grid the text, the document and the preview
\* show the same content: month abbreviation and day of month, then 'Day N'
\* exactly when the cell has a cycle day, then the labels in the cell's order.
C16_RenderersAgree ==
    AllRendered =>
        LET grid == TheGrid.grid
        IN  /\ Len(docx.weeks) = Len(grid)
            /\ Len(html.rows) = Len(grid)
            /\ \A w \in 1..Len(grid) : \A c \in 1..7 :
                  LET cell == grid[w][c]
                      t == TextCellOf(grid, w, c)
                      d == TextsOf(docx.weeks[w][c])
                      h == TextsOf(html.rows[w][c])
                  IN  /\ t = d
                      /\ d = h
                      /\ d[1] = month_abbr[ymd(cell.date).month] \o " " \o ToString(ymd(cell.date).day)
                      /\ ~HasCycleDay(cell) => Len(d) = 1
                      /\ HasCycleDay(cell) =>
                            /\ d[2] = "Day " \o ToString(CycleDayOf(cell))
                            /\ SubSeq(d, 3, Len(d)) = cell.labels
            /\ start = 739252 =>
                  /\ TextCellOf(grid, 1, 1) = <<"Dec 29">>
                  /\ TextCellOf(grid, 1, 4)[1] = "Jan 1"
                  /\ TextCellOf(grid, 1, 4)[2] = "Day 1"
            /\ start = 739282 => TextCellOf(grid, 1, 7)[1] = "Feb 1"

C16_Witness ==
    /\ AllRendered
    /\ start = StartBase
    /\ cycle_len = 7
    /\ TextCell(1, 3) = <<"Dec 31">>
    /\ TextsOf(docx.weeks[1][4]) = <<"Jan 1", "Day 1", "Aza", "Ven">>
    /\ TextsOf(html.rows[1][5]) = <<"Jan 2", "Day 2", "Aza">>
    /\ TextCell(1, 6) = <<"Jan 3", "Day 3", "Rest">>

FirstSunday == ymd(TheGrid.first_sun)
LastSaturday == ymd(TheGrid.last_sat)

\* the banner the claim describes
ExpectedBanner ==
    (IF FirstSunday.month = LastSaturday.month /\ FirstSunday.year = LastSaturday.year
     THEN month_name[FirstSunday.month]
     ELSE month_name[FirstSunday.month] \o " - " \o month_name[LastSaturday.month])
    \o " " \o
    (IF FirstSunday.year = LastSaturday.year
     THEN ToString(FirstSunday.year)
     ELSE ToString(FirstSunday.year) \o "-" \o ToString(LastSaturday.year))

\* C17: the banner of make_calendar_text and of export_calendar_docx names one
\* month exactly when first Sunday and last Saturday share month and year,
\* else 'MonthA - MonthB'; the year is single when shared, else 'YearA-YearB'.
C17_Banner ==
    /\ Called(txt) =>
          /\ txt.lines[2] = ExpectedBanner
          /\ (start = 739252 /\ cycle_len = 1) => txt.lines[2] = "December - January 2024-2025"
          /\ (start = 739256 /\ cycle_len = 7) => txt.lines[2] = "January 2025"
          /\ (start = 739282 /\ cycle_len = 1) => txt.lines[2] = "January - February 2025"
    /\ (Called(docx) /\ docx.ok) => docx.banner = ExpectedBanner

C17_Witness ==
    /\ Called(txt)
    /\ Called(docx)
    /\ docx.ok
    /\ start = StartBase
    /\ txt.lines[2] = "December - January 2024-2025"
    /\ docx.banner = "December - January 2024-2025"

\* the text of a column that a shorter cell leaves blank
BlankColumn == ljust("", colw)

\* C18: in the text of make_calendar_text every week is a block of h lines
\* (h the line count of its tallest cell) followed by one blank line; every
\* line of the block has 7 columns, a cell with fewer than h lines leaves its
\* column blank, and the first line holds the 7 dates, Sunday to Saturday.
C18_WeekBlocks ==
    Called(txt) =>
        LET grid == TheGrid.grid
        IN  /\ Len(txt.lines) = HeadLines + LinesBefore(grid, Len(grid) + 1)
            /\ \A w \in 1..Len(grid) :
                  LET h == WeekHeight(grid[w])
                      line == [r \in 1..(h + 1) |-> BlockLineOf(grid, w, r)]
                  IN  /\ line[h + 1] = ""
                      /\ \A r \in 1..h :
                            /\ Len(line[r]) = 7 * colw + 6
                            /\ \A c \in 1..6 :
                                  SubSeq(line[r], (colw + 1) * c, (colw + 1) * c) = " "
                            /\ \A c \in 1..7 :
                                  r > CellHeight(grid[w][c]) =>
                                      SubSeq(line[r], (colw + 1) * (c - 1) + 1,
                                             (colw + 1) * (c - 1) + colw) = BlankColumn
                      /\ \A c \in 1..7 :
                            /\ Column(line[1], c) = DateText(grid[w][c].date)
                            /\ weekday(grid[w][c].date) = (c + 5) % 7

C18_Witness ==
    /\ Called(txt)
    /\ start = StartBase
    /\ cycle_len = 7
    /\ note = "Hold"
    /\ Len(TheGrid.grid) = 2
    /\ WeekHeight(TheGrid.grid[1]) = 4
    /\ WeekHeight(TheGrid.grid[2]) = 3
    /\ Len(txt.lines) = 4 + 5 + 4
    /\ txt.lines[9] = ""
    /\ Column(txt.lines[5], 1) = "Dec 29"
    /\ Column(txt.lines[8], 4) = "Ven"
    /\ Column(txt.lines[8], 5) = ""

\* ---------------------------------------------------------------- editing claims
\* the names of the model that are equal after trimming and case-folding
NameClasses == { {"Aza", "aza", " AZA "}, {"Ven"}, {""} }

SameName(n1, n2) == \E cl \in NameClasses : n1 \in cl /\ n2 \in cl

\* C19: upsert_chemo(c) replaces, at its position, the first therapy whose
\* name equals c.name after trimming and case-folding, and appends c only
\* when there is none; every other therapy keeps its place and the list
\* grows by at most one.
C19_UpsertReplacesOrAppends ==
    (Called(last) /\ last.op = "upsert") =>
        LET before == last.before
            c == last.c
            same == { i \in 1..Len(before) : SameName(before[i].name, c.name) }
        IN  /\ Len(work) <= Len(before) + 1
            /\ same # {} =>
                  /\ Len(work) = Len(before)
                  /\ work[SetMin(same)] = c
                  /\ \A i \in 1..Len(before) : i # SetMin(same) => work[i] = before[i]
            /\ same = {} => work = Append(before, c)

C19_Witness ==
    /\ Called(last)
    /\ last.op = "upsert"
    /\ last.before = Library
    /\ last.c.name = " AZA "
    /\ Len(work) = 2
    /\ work[1] = last.c
    /\ work[1] # last.before[1]
    /\ work[2] = last.before[2]

\* C20: after any sequence of editing operations no two therapies of the
\* regimen have names that are equal ignoring case and surrounding whitespace.
C20_UniqueNames ==
    \A i \in 1..Len(work) : \A j \in 1..Len(work) :
        i # j => ~SameName(work[i].name, work[j].name)
\* ---------------------------------------------------------------- bank claims
\* the five stored columns of a therapy the caller writes
Written(t) == <<t.name, t.route, t.dose, t.frequency, t.duration>>

Upserted == Called(out) /\ out.op \in {"upsert_regimen", "save_as"}

\* the rows of every regimen not named `name` are the same in d1 and d2
OthersSame(d1, d2, name) ==
    LET Others(d) == { r \in Range(d.regimens) : r.name # name }
    IN  /\ Others(d1) = Others(d2)
        /\ \A r \in Others(d1) : TherapyRows(d1, r.id) = TherapyRows(d2, r.id)

\* C21: after upsert_regimen(reg) with a name free of surrounding whitespace,
\* get_regimen(reg.name) returns reg's disease_state and notes and reg's
\* therapies in name, route, dose, frequency and duration, in the same order;
\* none of the therapy rows stored under the name before remains, and the
\* rows of every other regimen are unchanged
C21_UpsertReplacesTherapies ==
    (Upserted /\ strip(out.arg.name) = out.arg.name) =>
        LET got == get_regimen(db, out.arg.name)
        IN  /\ got # None
            /\ got[1].name = out.arg.name
            /\ got[1].disease_state = out.arg.disease_state
            /\ got[1].notes = out.arg.notes
            /\ [i \in 1..Len(got[1].therapies) |-> Written(got[1].therapies[i])]
                   = [i \in 1..Len(out.arg.therapies) |-> Written(out.arg.therapies[i])]
            /\ Range(TherapyRows(db, RegimenRows(db, out.arg.name)[1].id))
                   \cap Range(out.before.therapies) = {}
            /\ OthersSame(out.before, db, out.arg.name)

\* an upsert over a stored regimen that has therapies, next to another
\* stored regimen that has therapies, writing a different therapy list
C21_Witness ==
    /\ Upserted
    /\ out.op = "upsert_regimen"
    /\ strip(out.arg.name) = out.arg.name
    /\ get_regimen(out.before, out.arg.name) # None
    /\ Len(out.arg.therapies) = 2
    /\ LET old == get_regimen(out.before, out.arg.name)[1]
       IN  /\ old.therapies # <<>>
           /\ Written(old.therapies[1]) # Written(out.arg.therapies[1])
           /\ old.disease_state # out.arg.disease_state
    /\ \E r \in Range(out.before.regimens) :
          r.name # out.arg.name /\ TherapyRows(out.before, r.id) # <<>>
Deleted == Called(out) /\ out.op = "delete_regimen"

\* C29: delete_regimen(name) returns True exactly when a regimen with the
\* trimmed name was stored; afterwards get_regimen(name) is None, the name is
\* not listed, none of its therapy rows remains and every other regimen and
\* its therapies are unchanged; when it returns False the store is unchanged
C29_DeleteRegimen ==
    Deleted =>
        LET was == RegimenRows(out.before, strip(out.arg))
        IN  /\ out.ret = (was # <<>>)
            /\ get_regimen(db, out.arg) = None
            /\ strip(out.arg) \notin Range(list_regimens(db))
            /\ \A i \in 1..Len(was) : TherapyRows(db, was[i].id) = <<>>
            /\ OthersSame(out.before, db, strip(out.arg))
            /\ ~out.ret => db = out.before

\* a stored regimen with therapies is deleted by a name written with
\* surrounding whitespace, next to another regimen that has therapies
C29_Witness ==
    /\ Deleted
    /\ out.ret
    /\ out.arg # strip(out.arg)
    /\ TherapyRows(out.before, RegimenRows(out.before, strip(out.arg))[1].id) # <<>>
    /\ \E r \in Range(db.regimens) : TherapyRows(db, r.id) # <<>>
\* ---------------------------------------------------------------- session claims
Confirming == At({"menu_confirm_save", "menu_confirm_save_as"})

\* the name the open confirmation asks about
AskedName == IF cli.pc = "menu_confirm_save" THEN heap[cli.target].name ELSE cli.new_name

\* C22: in _persist_menu a regimen stored under the target name is
\* overwritten only by the step that answers 'yes' to the overwrite
\* confirmation for that name; any other answer leaves the bank unchanged,
\* and "3. Don't save" leaves the menu without a write
C22_OverwriteOnlyOnYes ==
    [][ /\ ((out' # out \/ db' # db) /\ get_regimen(db, out'.arg.name) # None) =>
              /\ Confirming
              /\ cli'.typed.prompt = "overwrite"
              /\ NameKey(cli'.typed.text) = <<"y", "e", "s">>
              /\ out'.arg.name = AskedName
        /\ (Confirming /\ NameKey(cli'.typed.text) # <<"y", "e", "s">>) =>
              db' = db /\ out' = out
        /\ (At({"menu_select"}) /\ cli'.typed.text = "3") =>
              db' = db /\ out' = out /\ cli'.pc = cli.after
      ]_vars

\* "Save As" under a name that is stored, confirmed with ' YES ', has
\* replaced the therapies stored under that name
C22_Witness ==
    /\ Called(out)
    /\ out.op = "save_as"
    /\ get_regimen(out.before, out.arg.name) # None
    /\ get_regimen(out.before, out.arg.name)[1].therapies # out.arg.therapies
    /\ cli.typed = [prompt |-> "overwrite", text |-> " YES "]
InPrep == IF cli = NotCalled THEN FALSE ELSE cli.caller = "prep"

\* C23: in prep_editor no edit changes the base Regimen object, its list or
\* any of its Chemotherapy objects, and the bank is written only after the
\* save prompt was answered 'y' and the persist menu has returned
C23_PrepWorksOnCopy ==
    InPrep =>
        /\ \A a \in 1..Len(cli.heap0) : heap[a] = cli.heap0[a]
        /\ (db # cli.db0 \/ Called(out)) =>
              /\ cli.changed
              /\ cli.save # None
              /\ NameKey(cli.save[1]) = <<"y">>
              /\ cli.pc = "done"

\* an edit in the prep editor has made the copy differ from base, and the
\* copy was saved to the bank through the menu
C23_Witness ==
    /\ InPrep
    /\ cli.changed
    /\ Deref(heap, cli.target).therapies # Deref(heap, cli.base).therapies
    /\ Called(out)
    /\ out.arg.therapies = Deref(heap, cli.target).therapies
    /\ db # cli.db0
\* nothing was typed at a "Total doses" prompt in the session
TotalsLeftAlone == IF cli = NotCalled THEN TRUE ELSE ~cli.td_typed

\* C28: a therapy whose total doses were left to be calculated (Azacitidine
\* is stored with total_doses None, and no total is typed in the session) has
\* in the bank a total_doses equal to the number of days of its stored day
\* map, whatever was edited and saved.
C28_AutoTotalFollowsDayMap ==
    TotalsLeftAlone =>
        \A i \in 1..Len(db.therapies) :
            db.therapies[i].name = "Azacitidine" =>
                db.therapies[i].total_doses = Some(Len(parse_day_spec(db.therapies[i].duration)))

\* ---------------------------------------------------------------- JSON bank claims
\* a file a reader can parse: no file at all, or a text json.load accepts
Whole(file) == IF file = None THEN TRUE ELSE json_load(file[1]) # None

\* the database file before the save under way, and the file the save writes
OldOrNew == {saving.old, Some(dump(saving.data))}

\* C24: at every point of a save, and after a kill at any step, the
\* database file holds the complete previous content or the complete new
\* content, and so does what any reader got; it is never partial or empty
C24_AtomicSave ==
    /\ Whole(disk.db)
    /\ Called(saving) => disk.db \in OldOrNew
    /\ Called(seen) => /\ seen.ok
                       /\ Whole(seen.file)
                       /\ Called(saving) => seen.file \in OldOrNew

\* a reader came while the temporary file was half written and got the
\* complete previous content, which differs from the content being saved
C24_Witness ==
    /\ Called(seen)
    /\ Saving({"dump"})
    /\ seen.during = "dump"
    /\ disk.tmp # None
    /\ Len(disk.tmp[1]) \in 1..(Len(dump(saving.data)) - 1)
    /\ seen.file = saving.old
    /\ saving.old \notin {None, Some(dump(saving.data))}

\* update_regimen has returned without an exception
Updated == Called(upd) /\ upd.op = "update_regimen" /\ upd.raised = "" /\ Saving({"idle"})

\* C26: update_regimen sets disease_state to the argument when one is given
\* and clears it when None is passed: after update_regimen(name,
\* disease_state=None) get_regimen(name).disease_state is None
C26_NoneClearsDiseaseState ==
    Updated =>
        LET got == json_get_regimen(mem, upd.args[1])[1].disease_state
        IN  IF upd.args[2] = None THEN got = None
            ELSE got = (IF upd.args[2] = Some("") THEN None ELSE upd.args[2])
\* ---------------------------------------------------------------- legacy calendar claims
\* C25: the legacy make_calendar starts with the week (Sunday to Saturday) of
\* the start date and ends with the week of the last needed day,
\* start + (max_day - 1): its last date is the Saturday on or after that day,
\* and no rendered week row lies entirely after that Saturday.
C25_LegacyWeekRange ==
    Called(legacy) =>
        LET needed == start + (legacy.max_day - 1)
            Sat == CHOOSE d \in needed..(needed + 6) : IsSaturday(d)
        IN  /\ IsSunday(legacy.first_week_sun)
            /\ start - legacy.first_week_sun \in 0..6
            /\ legacy.last_date_needed = needed
            /\ legacy.last_week_sat = Sat
            /\ \A w \in DOMAIN legacy.weeks : legacy.weeks[w][1][1].n <= Sat
\* ---------------------------------------------------------------- page claims
\* a click on "Save regimen" or "Save as new regimen" with a name given, after
\* "Apply therapy" has reported the therapy as updated in this session
SavedAfterApply ==
    /\ Called(page)
    /\ page.event \in {"save", "save_as"}
    /\ page.applied # None
    /\ page.message # "name is required"

\* C27: a therapy added or edited with "Apply therapy" is part of the therapy
\* list a following "Save regimen" or "Save as new regimen" writes: after
\* select, apply, save the stored regimen contains the applied therapy.
C27_AppliedTherapySaved ==
    SavedAfterApply =>
        /\ page.raised = ""
        /\ page.written # None
        /\ get_regimen(db, page.written[1]) # None
        /\ page.applied[1] \in Range(get_regimen(db, page.written[1])[1].therapies)

====
